---------------------------- MODULE Spec2Model ----------------------------
(***************************************************************************)
(* Verification model of the prerequisite-aware retrieval and model-routing *)
(* core of Calculus_RAG:                                                    *)
(*   - PrerequisiteGraph   (src/src/calculus_rag/prerequisites/graph.py)    *)
(*   - ModelRouter, ComplexityAnalyzer                                      *)
(*                         (src/src/calculus_rag/llm/model_router.py)       *)
(*   - PgVectorStore.hybrid_search                                          *)
(*                         (src/src/calculus_rag/vectorstore/               *)
(*                          pgvector_store.py)                              *)
(*   - GapDetector         (src/src/calculus_rag/prerequisites/detector.py) *)
(*   - PrerequisiteAwareRetriever                                           *)
(*                         (src/src/calculus_rag/retrieval/                 *)
(*                          prerequisite_aware_retriever.py)                *)
(*   - RAGPipeline.query   (src/src/calculus_rag/rag/pipeline.py)           *)
(* Each component has its own specification (SpecGraph, SpecLoaded,         *)
(* SpecRouter, SpecConcurrent, SpecRouting, SpecHybrid, SpecAnalyzer,       *)
(* SpecDetector, SpecPipeline, SpecRetriever, SpecFiltered); the variables  *)
(* of the other components keep their initial values.                       *)
(***************************************************************************)
EXTENDS Integers, Sequences, FiniteSets, TLC

VARIABLES
    graph,              \* PrerequisiteGraph._graph: insertion-ordered dict
    ret,                \* outcome of the last PrerequisiteGraph call
    models,             \* ModelRouter.models
    enable_fallback,    \* ModelRouter.enable_fallback
    last_model_used,    \* ModelRouter._last_model_used
    pc,                 \* position of the generate call in flight
    call,               \* locals of the generate call in flight
    invocations,        \* llm.generate invocations of the call, in order
    h_args,             \* arguments and store answers of hybrid_search
    h_ret,              \* list returned by hybrid_search
    h_prev,             \* weight and list of the hybrid_search call before
    an,                 \* ComplexityAnalyzer.analyze call: question, level
    det,                \* GapDetector.analyze_query call: query, topic
    pl,                 \* RAGPipeline.query call: history, messages sent
    par,                \* PrerequisiteAwareRetriever and its retrieve call
    cc,                 \* callers sharing one ModelRouter: their generate calls
    rt                  \* a question routed by ModelRouter.generate

vars == <<graph, ret, models, enable_fallback, last_model_used, pc, call,
          invocations, h_args, h_ret, h_prev, an, det, pl,
          par, cc, rt>>

graphVars  == <<graph, ret>>
routerVars == <<models, enable_fallback, last_model_used, pc, call, invocations>>
hybridVars == <<h_args, h_ret, h_prev>>
analyzerVars == <<an>>
detectorVars == <<det>>
pipelineVars == <<pl>>
retrieverVars == <<par>>
concurrentVars == <<cc>>
routingVars == <<rt>>
\* The callers of a shared router and the routed question.
moreVars == <<concurrentVars, routingVars>>
\* The variables of the components added after the first three.
restVars == <<analyzerVars, detectorVars, pipelineVars, retrieverVars,
              moreVars>>

-----------------------------------------------------------------------------
(* Generic helpers                                                          *)

Range(s) == {s[i] : i \in 1..Len(s)}

\* All sequences over S of length at most n.
SeqsUpTo(S, n) == UNION {[1..k -> S] : k \in 0..n}

-----------------------------------------------------------------------------
(* PrerequisiteGraph                                                        *)

\* Bounds of the graph model.
MaxPrereqs == 2

Topics == {"a", "b", "c"}

PrereqLists == SeqsUpTo(Topics, MaxPrereqs)

\* Bound of the mappings from_dict is given: the length of their lists.
MaxLoadedPrereqs == 1

\* A dict[str, list[str]] is a sequence of entries in insertion order.
Keys(g) == {g[i].topic : i \in 1..Len(g)}

KeyList(g) == [i \in 1..Len(g) |-> g[i].topic]

\* self._graph.get(topic, [])
get_prerequisites(g, topic) ==
    IF topic \in Keys(g)
    THEN g[CHOOSE i \in 1..Len(g) : g[i].topic = topic].prerequisites
    ELSE <<>>

\* d[topic] = prerequisites: an existing key keeps its position, a new key
\* goes last.
DictSet(g, topic, prerequisites) ==
    IF topic \in Keys(g)
    THEN [i \in 1..Len(g) |->
            IF g[i].topic = topic
            THEN [topic |-> topic, prerequisites |-> prerequisites]
            ELSE g[i]]
    ELSE Append(g, [topic |-> topic, prerequisites |-> prerequisites])

\* _would_create_cycle.has_cycle: depth-first search over temp_graph with the
\* shared sets visited and rec_stack; the result carries both sets and the
\* returned boolean.
RECURSIVE has_cycle(_, _, _)
RECURSIVE has_cycle_loop(_, _, _, _, _)

has_cycle_loop(temp_graph, topic, prereqs, i, st) ==
    IF i > Len(prereqs)
    THEN [visited |-> st.visited, rec_stack |-> st.rec_stack \ {topic},
          found |-> FALSE]
    ELSE LET prereq == prereqs[i] IN
         IF prereq \notin st.visited
         THEN LET r == has_cycle(temp_graph, prereq, st) IN
              IF r.found THEN r
              ELSE has_cycle_loop(temp_graph, topic, prereqs, i + 1, r)
         ELSE IF prereq \in st.rec_stack
              THEN [st EXCEPT !.found = TRUE]
              ELSE has_cycle_loop(temp_graph, topic, prereqs, i + 1, st)

has_cycle(temp_graph, topic, st) ==
    has_cycle_loop(temp_graph, topic, get_prerequisites(temp_graph, topic), 1,
                   [visited |-> st.visited \cup {topic},
                    rec_stack |-> st.rec_stack \cup {topic},
                    found |-> FALSE])

\* The outer loop of _would_create_cycle over the keys of temp_graph.
RECURSIVE cycle_scan(_, _, _)
cycle_scan(temp_graph, i, st) ==
    IF i > Len(temp_graph) THEN FALSE
    ELSE LET topic == temp_graph[i].topic IN
         IF topic \notin st.visited
         THEN LET r == has_cycle(temp_graph, topic, st) IN
              IF r.found THEN TRUE ELSE cycle_scan(temp_graph, i + 1, r)
         ELSE cycle_scan(temp_graph, i + 1, st)

\* A variant that searches the stored graph instead of the trial graph.
would_create_cycle_stored(g, new_topic, new_prerequisites) ==
    cycle_scan(g, 1, [visited |-> {}, rec_stack |-> {}, found |-> FALSE])

_would_create_cycle(g, new_topic, new_prerequisites) ==
    cycle_scan(DictSet(g, new_topic, new_prerequisites), 1,
               [visited |-> {}, rec_stack |-> {}, found |-> FALSE])

\* _collect_prerequisites: returns the visited set after the call.
RECURSIVE _collect_prerequisites(_, _, _)
RECURSIVE collect_loop(_, _, _, _)

collect_loop(g, prereqs, i, visited) ==
    IF i > Len(prereqs) THEN visited
    ELSE collect_loop(g, prereqs, i + 1,
                      _collect_prerequisites(g, prereqs[i], visited))

_collect_prerequisites(g, topic, visited) ==
    IF topic \in visited \/ topic \notin Keys(g)
    THEN visited
    ELSE collect_loop(g, get_prerequisites(g, topic), 1, visited \cup {topic})

\* get_all_prerequisites: list(visited) has no defined order; it is a set.
get_all_prerequisites(g, topic) ==
    _collect_prerequisites(g, topic, {}) \ {topic}

get_missing_prerequisites(g, topic, completed) ==
    get_all_prerequisites(g, topic) \ completed

\* get_dependents: the topics, in dict order, that list topic.
RECURSIVE get_dependents_from(_, _, _)
get_dependents_from(g, topic, i) ==
    IF i > Len(g) THEN <<>>
    ELSE IF topic \in Range(g[i].prerequisites)
         THEN <<g[i].topic>> \o get_dependents_from(g, topic, i + 1)
         ELSE get_dependents_from(g, topic, i + 1)

get_dependents(g, topic) == get_dependents_from(g, topic, 1)

\* in_degree after the second computation (lines 166-169): one increment per
\* entry of the topic's prerequisite list.
in_degree_of(g) ==
    [t \in Keys(g) |-> Len(get_prerequisites(g, t))]

\* The for-loop over get_dependents(topic) inside Kahn's loop.
RECURSIVE reduce_dependents(_, _, _, _)
reduce_dependents(deps, i, in_degree, queue) ==
    IF i > Len(deps) THEN [in_degree |-> in_degree, queue |-> queue]
    ELSE LET d   == deps[i]
             deg == [in_degree EXCEPT ![d] = @ - 1]
         IN reduce_dependents(deps, i + 1, deg,
                              IF deg[d] = 0 THEN Append(queue, d) ELSE queue)

\* while queue: topic = queue.pop(0); result.append(topic); ...
RECURSIVE kahn_loop(_, _, _, _)
kahn_loop(g, in_degree, queue, result) ==
    IF queue = <<>> THEN result
    ELSE LET topic == Head(queue)
             r == reduce_dependents(get_dependents(g, topic), 1, in_degree,
                                    Tail(queue))
         IN kahn_loop(g, r.in_degree, r.queue, Append(result, topic))

\* A variant that returns the topics in dict order.
topological_sort_keys(g) == KeyList(g)

topological_sort(g) ==
    LET in_degree == in_degree_of(g)
        queue == SelectSeq(KeyList(g), LAMBDA t : in_degree[t] = 0)
    IN kahn_loop(g, in_degree, queue, <<>>)

\* get_learning_path: the topological order restricted to the missing
\* prerequisites the graph reports plus the target.
get_learning_path(g, target_topic, completed) ==
    LET all_prereqs == get_all_prerequisites(g, target_topic)
        needed      == (all_prereqs \ completed) \cup {target_topic}
        sorted_all  == topological_sort(g)
        Needed(t)   == t \in needed
    IN SelectSeq(sorted_all, Needed)

\* GapDetector.detect_gaps on the detector's graph.
detect_gaps(g, topic, completed_topics) ==
    get_missing_prerequisites(g, topic, completed_topics)

\* GapDetector.get_next_topic: None is <<>>, a topic t is <<t>>.
get_next_topic(g, target_topic, completed_topics) ==
    LET gaps == detect_gaps(g, target_topic, completed_topics)
        path == get_learning_path(g, target_topic, completed_topics)
    IN IF gaps = {} THEN <<>>
       ELSE IF path # <<>> THEN <<path[1]>> ELSE <<>>

\* Outcome record of a PrerequisiteGraph call: the operation, its topic and
\* completed arguments, whether it raised, and the returned set or list.
Ret(op, topic, completed, raised, val_set, val_list) ==
    [op |-> op, topic |-> topic, completed |-> completed, raised |-> raised,
     val_set |-> val_set, val_list |-> val_list]

NoRet == Ret("none", "", {}, FALSE, {}, <<>>)

\* The graph is built first ("built once at startup, read-only thereafter");
\* each run then issues one query on the graph it built.
Building == ret.op \in {"none", "add_topic", "from_dict"}

InitGraphVars ==
    /\ graph = <<>>
    /\ ret = NoRet

\* add_topic: raises CircularDependencyError, whose message names the topic,
\* or stores the list and returns None.
add_topic(topic, prerequisites) ==
    IF _would_create_cycle(graph, topic, prerequisites)
    THEN /\ graph' = graph
         /\ ret' = Ret("add_topic", topic, {}, TRUE, {}, <<>>)
    ELSE /\ graph' = DictSet(graph, topic, prerequisites)
         /\ ret' = Ret("add_topic", "", {}, FALSE, {}, <<>>)

AddTopic ==
    /\ Building
    /\ \E topic \in Topics, prerequisites \in PrereqLists :
          add_topic(topic, prerequisites)
    /\ UNCHANGED <<routerVars, hybridVars, restVars>>

GetAllPrerequisites ==
    /\ Building
    /\ \E topic \in Topics :
          ret' = Ret("get_all_prerequisites", topic, {}, FALSE,
                     get_all_prerequisites(graph, topic), <<>>)
    /\ UNCHANGED <<graph, routerVars, hybridVars, restVars>>

GetMissingPrerequisites ==
    /\ Building
    /\ \E topic \in Topics, completed \in SUBSET Topics :
          ret' = Ret("get_missing_prerequisites", topic, completed, FALSE,
                     get_missing_prerequisites(graph, topic, completed), <<>>)
    /\ UNCHANGED <<graph, routerVars, hybridVars, restVars>>

TopologicalSort ==
    /\ Building
    /\ ret' = Ret("topological_sort", "", {}, FALSE, {},
                  topological_sort(graph))
    /\ UNCHANGED <<graph, routerVars, hybridVars, restVars>>

GetLearningPath ==
    /\ Building
    /\ \E target_topic \in Topics, completed \in SUBSET Topics :
          ret' = Ret("get_learning_path", target_topic, completed, FALSE, {},
                     get_learning_path(graph, target_topic, completed))
    /\ UNCHANGED <<graph, routerVars, hybridVars, restVars>>

\* GapDetector.get_next_topic of a detector constructed on this graph.
GetNextTopic ==
    /\ Building
    /\ \E target_topic \in Topics, completed_topics \in SUBSET Topics :
          ret' = Ret("get_next_topic", target_topic, completed_topics, FALSE,
                     {}, get_next_topic(graph, target_topic, completed_topics))
    /\ UNCHANGED <<graph, routerVars, hybridVars, restVars>>

\* The mappings given to from_dict: every dict over the topics, in every key
\* order, acyclic or not; json.loads of a document from_json is given yields
\* such a dict.
DictData ==
    {d \in SeqsUpTo([topic : Topics,
                     prerequisites : SeqsUpTo(Topics, MaxLoadedPrereqs)],
                    Cardinality(Topics)) :
        \A i, j \in 1..Len(d) : d[i].topic = d[j].topic => i = j}

\* from_dict: graph._graph = data.copy(), no check of the edges.
from_dict(data) == data

\* from_dict (and from_json after json.loads) constructs the graph.
FromDict ==
    /\ ret.op = "none"
    /\ graph = <<>>
    /\ \E data \in DictData :
          /\ graph' = from_dict(data)
          /\ ret' = Ret("from_dict", "", {}, FALSE, {}, <<>>)
    /\ UNCHANGED <<routerVars, hybridVars, restVars>>

\* A graph loaded with from_dict and queried.
NextLoaded ==
    \/ FromDict
    \/ GetAllPrerequisites
    \/ TopologicalSort
    \/ GetLearningPath

NextGraph ==
    \/ AddTopic
    \/ GetAllPrerequisites
    \/ GetMissingPrerequisites
    \/ TopologicalSort
    \/ GetLearningPath
    \/ GetNextTopic

-----------------------------------------------------------------------------
(* Properties of PrerequisiteGraph                                          *)

\* Direct prerequisites as a set, and the identifiers reachable by one or more
\* prerequisite edges, by fixpoint iteration on sets.
DirectSet(g, t) == Range(get_prerequisites(g, t))

RECURSIVE ReachClosure(_, _)
ReachClosure(g, S) ==
    LET N == S \cup UNION {DirectSet(g, x) : x \in S}
    IN IF N = S THEN S ELSE ReachClosure(g, N)

ReachablePlus(g, t) == ReachClosure(g, DirectSet(g, t))

Cyclic(g) == \E t \in Keys(g) : t \in ReachablePlus(g, t)

\* C1: every add_topic call whose edges would complete a cycle (a self
\* prerequisite and an overwriting call included) raises and leaves the
\* mapping as it was, and the graph is acyclic in every state.
C1_CycleRejectedAtomically ==
    /\ [](~Cyclic(graph))
    /\ [][ret'.op = "add_topic" =>
            \/ ret'.raised /\ graph' = graph
            \* A call that did not raise, or changed the mapping, stored its
            \* list under its topic: those are its only possible arguments,
            \* and they complete no cycle.
            \/ \A topic \in Keys(graph') :
                  LET prerequisites == get_prerequisites(graph', topic) IN
                  add_topic(topic, prerequisites)
                     => ~Cyclic(DictSet(graph, topic, prerequisites))]_vars

\* C1 witness: a call that overwrites an existing topic of a graph with
\* several topics was rejected.
C1_Witness ==
    /\ ret.op = "add_topic"
    /\ ret.raised
    /\ ret.topic \in Keys(graph)
    /\ Len(graph) >= 2
    /\ get_prerequisites(graph, ret.topic) # <<>>

\* C2: get_all_prerequisites(t) is exactly the set of identifiers reachable
\* from t by one or more prerequisite edges (whether or not they were added
\* as topics), never t itself, and get_missing_prerequisites(t, completed)
\* is that set minus completed.
C2_AllPrerequisitesIsReachableSet ==
    /\ ret.op = "get_all_prerequisites"
         => /\ ret.val_set = ReachablePlus(graph, ret.topic)
            /\ ret.topic \notin ret.val_set
    /\ ret.op = "get_missing_prerequisites"
         => ret.val_set = ReachablePlus(graph, ret.topic) \ ret.completed

\* C3: for every edge (topic, prereq) of the graph, prereq appears at a
\* strictly smaller index than topic in the list topological_sort() returns.
C3_PrereqBeforeTopic ==
    ret.op = "topological_sort"
      => \A i \in 1..Len(graph) :
           \A prereq \in Range(graph[i].prerequisites) :
             \E x, y \in 1..Len(ret.val_list) :
                /\ x < y
                /\ ret.val_list[x] = prereq
                /\ ret.val_list[y] = graph[i].topic

\* C17: for a target of the graph that is not yet completed,
\* get_learning_path(target, completed) lists exactly the transitive
\* prerequisites of target plus target, minus completed, each once, every
\* topic after its prerequisites that are in the path, and target last.
C17_LearningPath ==
    (/\ ret.op = "get_learning_path"
     /\ ret.topic \in Keys(graph)
     /\ ret.topic \notin ret.completed) =>
        LET path == ret.val_list
            expected == (ReachablePlus(graph, ret.topic) \cup {ret.topic})
                           \ ret.completed
        IN /\ Range(path) = expected
           /\ \A i, j \in 1..Len(path) : i # j => path[i] # path[j]
           /\ \A i \in 1..Len(path) :
                 \A p \in DirectSet(graph, path[i]) \cap Range(path) :
                    \E j \in 1..(i - 1) : path[j] = p
           /\ path # <<>>
           /\ path[Len(path)] = ret.topic

\* C18: get_next_topic(target, completed) returns None exactly when no
\* transitive prerequisite of target is missing from completed; otherwise it
\* returns a missing prerequisite, never target, all of whose own
\* prerequisites are completed.
C18_NextTopicLearnable ==
    ret.op = "get_next_topic" =>
        LET missing == ReachablePlus(graph, ret.topic) \ ret.completed IN
        /\ (ret.val_list = <<>>) <=> (missing = {})
        /\ ret.val_list # <<>> =>
              /\ ret.val_list[1] \in missing
              /\ ret.val_list[1] # ret.topic
              /\ DirectSet(graph, ret.val_list[1]) \subseteq ret.completed

\* C23: topological_sort() returns a total order of the whole graph: every
\* topic of get_all_topics() appears in the returned list exactly once,
\* whatever the prerequisite lists of the successful add_topic calls were.
C23_TopologicalSortTotal ==
    ret.op = "topological_sort" =>
        /\ Range(ret.val_list) = Keys(graph)
        /\ Len(ret.val_list) = Len(graph)

\* The topics that lie on a cycle or reach one by prerequisite edges.
OnOrBehindCycle(g) ==
    {t \in Keys(g) :
        \E c \in ReachablePlus(g, t) \cup {t} : c \in ReachablePlus(g, c)}

C29_WitnessPath ==
    /\ ret.op = "get_learning_path"
    /\ ret.topic \in ReachablePlus(graph, ret.topic)

-----------------------------------------------------------------------------
(* ModelRouter                                                              *)

\* Bound of the router model: the number of add_model calls.
MaxModels == 3

\* ComplexityLevel values.
SIMPLE == 1
MODERATE == 2
COMPLEX == 3

ComplexityLevel == {SIMPLE, MODERATE, COMPLEX}

\* The k-th binding added is named ModelNames[k].
ModelNames == <<"m1", "m2", "m3", "m4", "m5">>

ModelConfig(name, max_complexity, is_fallback) ==
    [name |-> name, max_complexity |-> max_complexity,
     is_fallback |-> is_fallback]

\* list.sort(key=lambda m: m.max_complexity.value) is a stable sort: insert
\* every element, left to right, behind the elements whose key is not larger.
RECURSIVE InsertByComplexity(_, _)
InsertByComplexity(s, m) ==
    IF s = <<>> THEN <<m>>
    ELSE IF s[Len(s)].max_complexity <= m.max_complexity
         THEN Append(s, m)
         ELSE Append(InsertByComplexity(SubSeq(s, 1, Len(s) - 1), m), s[Len(s)])

RECURSIVE SortByComplexity(_)
SortByComplexity(s) ==
    IF s = <<>> THEN <<>>
    ELSE InsertByComplexity(SortByComplexity(SubSeq(s, 1, Len(s) - 1)),
                            s[Len(s)])

\* add_model without the trailing sort.
add_model_unsorted(ms, name, max_complexity, is_fallback) ==
    Append(ms, ModelConfig(name, max_complexity, is_fallback))

\* add_model: append, then sort by complexity.
add_model(ms, name, max_complexity, is_fallback) ==
    SortByComplexity(Append(ms, ModelConfig(name, max_complexity, is_fallback)))

\* The for-loop of _select_model: the index of the first binding that can
\* handle the complexity and is no fallback; 0 when the loop falls through.
RECURSIVE select_scan(_, _, _)
select_scan(ms, complexity, i) ==
    IF i > Len(ms) THEN 0
    ELSE IF ms[i].max_complexity >= complexity /\ ~ms[i].is_fallback
         THEN i
         ELSE select_scan(ms, complexity, i + 1)

\* _select_model on a non-empty list: the index of the selected binding
\* (self.models[-1] when the loop finds none).
_select_model(ms, complexity) ==
    LET i == select_scan(ms, complexity, 1)
    IN IF i # 0 THEN i ELSE Len(ms)

\* A variant that lists the fallback bindings last-to-first.
fallback_models_reversed(ms) ==
    LET f == SelectSeq([i \in 1..Len(ms) |-> i], LAMBDA i : ms[i].is_fallback)
    IN [k \in 1..Len(f) |-> f[Len(f) + 1 - k]]

\* fallback_models = [m for m in self.models if m.is_fallback], as indices.
fallback_models(ms) ==
    SelectSeq([i \in 1..Len(ms) |-> i], LAMBDA i : ms[i].is_fallback)

\* Values of a generate call.
\* type: the exception class and message form; model: the model the message
\* names; text: str(primary_error) embedded in the message; cause: the text of
\* the exception given after "from" (<<>> when there is none).
NoError == [type |-> "none", model |-> "", cause |-> <<>>, text |-> <<>>]

\* The exception the llm.generate invocation of the model called name raises.
LLMError(name) ==
    [type |-> "LLMError", model |-> name, cause |-> <<>>,
     text |-> <<"error of", name>>]

\* RuntimeError(f"Primary model '{name}' failed: {primary_error}") from
\* primary_error.
PrimaryFailed(name, primary_error) ==
    [type |-> "RuntimeError:primary", model |-> name,
     cause |-> primary_error.text, text |-> primary_error.text]

\* RuntimeError(f"All models failed. Primary: {primary_error}") from
\* primary_error.
\* A variant that raises without "from primary_error".
AllFailedNoCause(primary_error) ==
    [type |-> "RuntimeError:all", model |-> "",
     cause |-> <<>>, text |-> primary_error.text]

AllFailed(primary_error) ==
    [type |-> "RuntimeError:all", model |-> "",
     cause |-> primary_error.text, text |-> primary_error.text]

\* An LLMResponse: content and the router's metadata keys ("" / 0 / <<>>
\* stand for an absent key).
NoResponse ==
    [content |-> "", router_model |-> "", router_complexity |-> 0,
     router_fallback_from |-> "", router_primary_error |-> <<>>]

\* The response of the model called name, before the router annotates it.
LLMResponse(name) == [NoResponse EXCEPT !.content = name]

\* lines 260-263: the routing info added to the primary's response.
AnnotatePrimary(response, primary_name, complexity) ==
    [response EXCEPT !.router_model = primary_name,
                     !.router_complexity = complexity]

\* A variant that records the names the wrong way round.
AnnotateFallbackSwapped(response, fallback_name, primary_name, primary_error) ==
    [response EXCEPT !.router_model = primary_name,
                     !.router_fallback_from = fallback_name,
                     !.router_primary_error = primary_error.text]

\* lines 282-284: the routing info added to a fallback's response.
AnnotateFallback(response, fallback_name, primary_name, primary_error) ==
    [response EXCEPT !.router_model = fallback_name,
                     !.router_fallback_from = primary_name,
                     !.router_primary_error = primary_error.text]

NoCall ==
    [complexity |-> 0, primary |-> 0, primary_error |-> NoError,
     fallbacks |-> <<>>, response |-> NoResponse, error |-> NoError]

Invocation(model, role) == [model |-> model, role |-> role, result |-> "pending"]

\* last_model_used: <<>> is None, <<p>> the plain name p, <<p, f>> "p→f".
RouterIdle ==
    /\ models = <<>>
    /\ last_model_used = <<>>
    /\ pc = "idle"
    /\ call = NoCall
    /\ invocations = <<>>

InitRouterVars ==
    /\ enable_fallback \in BOOLEAN
    /\ RouterIdle

\* Marks the invocation in flight as finished.
Finish(result) ==
    [invocations EXCEPT ![Len(invocations)].result = result]

AddModel ==
    /\ pc = "idle"
    /\ Len(models) < MaxModels
    /\ \E max_complexity \in ComplexityLevel, is_fallback \in BOOLEAN :
          models' = add_model(models, ModelNames[Len(models) + 1],
                              max_complexity, is_fallback)
    /\ UNCHANGED <<enable_fallback, last_model_used, pc, call, invocations,
                   graphVars, hybridVars, restVars>>

\* generate with no model configured: _select_model raises ValueError.
GenerateNoModels ==
    /\ pc \in {"idle", "returned", "raised"}
    /\ models = <<>>
    /\ pc' = "raised"
    /\ call' = [NoCall EXCEPT !.error =
                   [type |-> "ValueError", model |-> "", cause |-> <<>>,
                    text |-> <<>>]]
    /\ invocations' = <<>>
    /\ UNCHANGED <<models, enable_fallback, last_model_used, graphVars,
                   hybridVars, restVars>>

\* generate, lines 249-258: select the primary, record it, invoke it.
GenerateStart ==
    /\ pc \in {"idle", "returned", "raised"}
    /\ models # <<>>
    /\ \E complexity \in ComplexityLevel :
          LET primary == _select_model(models, complexity) IN
          /\ call' = [NoCall EXCEPT !.complexity = complexity,
                                    !.primary = primary]
          /\ last_model_used' = <<models[primary].name>>
          /\ invocations' = <<Invocation(primary, "primary")>>
    /\ pc' = "primary"
    /\ UNCHANGED <<models, enable_fallback, graphVars, hybridVars, restVars>>

\* lines 258-264: the primary returned a response.
PrimarySucceeds ==
    /\ pc = "primary"
    /\ call' = [call EXCEPT !.response =
                  AnnotatePrimary(LLMResponse(models[call.primary].name),
                                  models[call.primary].name, call.complexity)]
    /\ invocations' = Finish("ok")
    /\ pc' = "returned"
    /\ UNCHANGED <<models, enable_fallback, last_model_used, graphVars,
                   hybridVars, restVars>>

\* The fallback loop from its k-th iteration on: invoke fallbacks[k], or
\* raise when the list is exhausted (lines 276-293).
FallbackFrom(k, fallbacks, primary_error, log) ==
    IF k > Len(fallbacks)
    THEN /\ call' = [call EXCEPT !.primary_error = primary_error,
                                 !.fallbacks = fallbacks,
                                 !.error = AllFailed(primary_error)]
         /\ invocations' = log
         /\ pc' = "raised"
         /\ UNCHANGED last_model_used
    ELSE /\ call' = [call EXCEPT !.primary_error = primary_error,
                                 !.fallbacks = fallbacks]
         /\ last_model_used' =
               <<models[call.primary].name, models[fallbacks[k]].name>>
         /\ invocations' = Append(log, Invocation(fallbacks[k], "fallback"))
         /\ pc' = "fallback"

\* lines 266-279: the primary raised.
PrimaryFails ==
    /\ pc = "primary"
    /\ LET primary_error == LLMError(models[call.primary].name) IN
       IF ~enable_fallback
       THEN /\ call' = [call EXCEPT
                          !.primary_error = primary_error,
                          !.error = PrimaryFailed(models[call.primary].name,
                                                  primary_error)]
            /\ invocations' = Finish("error")
            /\ pc' = "raised"
            /\ UNCHANGED last_model_used
       ELSE FallbackFrom(1, fallback_models(models), primary_error,
                         Finish("error"))
    /\ UNCHANGED <<models, enable_fallback, graphVars, hybridVars, restVars>>

\* lines 279-285: the fallback in flight returned a response.
FallbackSucceeds ==
    /\ pc = "fallback"
    /\ LET fallback_model == models[invocations[Len(invocations)].model] IN
       call' = [call EXCEPT !.response =
                  AnnotateFallback(LLMResponse(fallback_model.name),
                                   fallback_model.name,
                                   models[call.primary].name,
                                   call.primary_error)]
    /\ invocations' = Finish("ok")
    /\ pc' = "returned"
    /\ UNCHANGED <<models, enable_fallback, last_model_used, graphVars,
                   hybridVars, restVars>>

\* lines 287-293: the fallback in flight raised; try the next one.
FallbackFails ==
    /\ pc = "fallback"
    /\ FallbackFrom(Len(invocations), call.fallbacks, call.primary_error,
                    Finish("error"))
    /\ UNCHANGED <<models, enable_fallback, graphVars, hybridVars, restVars>>

NextRouter ==
    \/ AddModel
    \/ GenerateNoModels
    \/ GenerateStart
    \/ PrimarySucceeds
    \/ PrimaryFails
    \/ FallbackSucceeds
    \/ FallbackFails

-----------------------------------------------------------------------------
(* Properties of ModelRouter                                                *)

InCall == pc \in {"primary", "fallback", "returned", "raised"} /\ call.primary # 0

Primary == models[call.primary]

\* The bindings that can handle the complexity, all of them / no fallbacks.
Capable(complexity) ==
    {i \in 1..Len(models) : models[i].max_complexity >= complexity}

CapableNonFallback(complexity) ==
    {i \in Capable(complexity) : ~models[i].is_fallback}

\* The stored positions of the fallback-flagged bindings.
FallbackPositions == {i \in 1..Len(models) : models[i].is_fallback}

C5_CheapestCapable ==
    (pc = "primary" /\ Capable(call.complexity) # {}) =>
        /\ call.primary \in Capable(call.complexity)
        /\ \A i \in Capable(call.complexity) :
              Primary.max_complexity <= models[i].max_complexity

\* C6: a response returned after the primary raised comes from the first
\* fallback B that succeeded and carries router_model = B, router_fallback_from
\* = the primary, router_primary_error = the primary's error text, with
\* last_model_used "primary→B"; a response of the primary carries router_model
\* = the primary, with last_model_used the primary's name.
C6_ResponseMetadata ==
    pc = "returned" =>
        LET n == Len(invocations)
            B == models[invocations[n].model]
        IN /\ invocations[n].result = "ok"
           /\ \A i \in 1..(n - 1) : invocations[i].result = "error"
           /\ call.response.content = B.name
           /\ IF n = 1
              THEN /\ invocations[1].model = call.primary
                   /\ call.response.router_model = Primary.name
                   /\ call.response.router_fallback_from = ""
                   /\ last_model_used = <<Primary.name>>
              ELSE /\ enable_fallback
                   /\ B.is_fallback
                   /\ call.response.router_model = B.name
                   /\ call.response.router_fallback_from = Primary.name
                   /\ call.response.router_primary_error
                         = LLMError(Primary.name).text
                   /\ last_model_used = <<Primary.name, B.name>>

\* C6 witness: the second fallback tried answered after the primary and the
\* first fallback raised.
C6_Witness ==
    /\ pc = "returned"
    /\ Len(invocations) = 3
    /\ call.response.router_fallback_from = Primary.name
    /\ call.response.router_model # Primary.name

C8_RaisesOnlyWhenAllFailed ==
    /\ (pc = "returned") =>
          /\ invocations[Len(invocations)].result = "ok"
          /\ call.response.content
                = models[invocations[Len(invocations)].model].name
    /\ (pc = "raised" /\ models # <<>>) =>
          /\ \A i \in 1..Len(invocations) : invocations[i].result = "error"
          /\ invocations[1].model = call.primary
          /\ call.error.cause = LLMError(Primary.name).text
          /\ IF enable_fallback
             THEN \A f \in FallbackPositions :
                     \E i \in 2..Len(invocations) : invocations[i].model = f
             ELSE /\ Len(invocations) = 1
                  /\ call.error.type = "RuntimeError:primary"
                  /\ call.error.model = Primary.name

\* C8 witness: with fallback enabled the primary and two fallbacks failed.
C8_Witness ==
    /\ pc = "raised"
    /\ enable_fallback
    /\ Len(invocations) = 3
    /\ call.error.cause = LLMError(Primary.name).text

\* C8 witness of the other case (fallback disabled, a fallback configured).
C8_WitnessDisabled ==
    /\ pc = "raised"
    /\ ~enable_fallback
    /\ FallbackPositions # {}
    /\ call.error.model = Primary.name

\* C24: after the primary failed, generate goes through the remaining
\* fallback-flagged bindings only: the binding tried as primary is not invoked
\* a second time within the call, also when it carries the fallback flag.
C24_PrimaryNotRetried ==
    InCall =>
        \A i \in 2..Len(invocations) : invocations[i].model # call.primary

\* C25: every binding invoked as a fallback after the primary failed has a
\* max-complexity tier at least as high as the primary's.
C25_FallbackNotWeaker ==
    InCall =>
        \A i \in 2..Len(invocations) :
            models[invocations[i].model].max_complexity
               >= Primary.max_complexity

-----------------------------------------------------------------------------
(* PgVectorStore.hybrid_search                                              *)

\* Bound of the hybrid-search model: the largest n_results.
MaxResults == 2

\* rrf_k
RRF_K == 60

ChunkIds == {"c1", "c2", "c3", "c4"}

\* semantic_weight in tenths: -0.5, 0, 0.3, 0.5, 0.7 (the default), 0.9, 1
\* and 1.5.
SemanticWeights == {-5, 0, 3, 5, 7, 9, 10, 15}

\* A ranked answer of the store: at most limit rows, no id twice (id is the
\* table's primary key).
RankedLists(limit) ==
    LET longest == IF limit < Cardinality(ChunkIds)
                   THEN limit ELSE Cardinality(ChunkIds)
    IN {l \in SeqsUpTo(ChunkIds, longest) :
           \A i, j \in 1..Len(l) : i # j => l[i] # l[j]}

\* Scores are exact fractions num/den with den > 0, in units of one tenth
\* (a weight w stands for w/10).
Frac(num, den) == [num |-> num, den |-> den]

FracAdd(x, y) == Frac(x.num * y.den + y.num * x.den, x.den * y.den)

FracLess(x, y) == x.num * y.den < y.num * x.den

FracEq(x, y) == x.num * y.den = y.num * x.den

\* A variant that uses the rank without the "+ 1".
rrf_score_rank0(weight, rank) == Frac(weight, RRF_K + rank)

\* weight * (1.0 / (rrf_k + rank + 1)), rank counted from 0.
rrf_score(weight, rank) == Frac(weight, RRF_K + rank + 1)

\* scores[result.id] = scores.get(result.id, 0) + rrf_score on an
\* insertion-ordered dict of [id, score] entries.
ScoreAdd(scores, id, x) ==
    IF \E i \in 1..Len(scores) : scores[i].id = id
    THEN [i \in 1..Len(scores) |->
            IF scores[i].id = id
            THEN [id |-> id, score |-> FracAdd(scores[i].score, x)]
            ELSE scores[i]]
    ELSE Append(scores, [id |-> id, score |-> FracAdd(Frac(0, 1), x)])

\* for rank, result in enumerate(results): accumulate weight-scaled scores.
RECURSIVE accumulate(_, _, _, _)
accumulate(scores, results, weight, i) ==
    IF i > Len(results) THEN scores
    ELSE accumulate(ScoreAdd(scores, results[i], rrf_score(weight, i - 1)),
                    results, weight, i + 1)

\* sorted(..., key=score, reverse=True): stable, so entries of equal score
\* keep their dict order.
RECURSIVE InsertByScoreDesc(_, _)
InsertByScoreDesc(s, e) ==
    IF s = <<>> THEN <<e>>
    ELSE IF ~FracLess(s[Len(s)].score, e.score)
         THEN Append(s, e)
         ELSE Append(InsertByScoreDesc(SubSeq(s, 1, Len(s) - 1), e), s[Len(s)])

\* A variant that sorts without reverse=True.
RECURSIVE InsertByScoreAsc(_, _)
InsertByScoreAsc(s, e) ==
    IF s = <<>> THEN <<e>>
    ELSE IF ~FracLess(e.score, s[Len(s)].score)
         THEN Append(s, e)
         ELSE Append(InsertByScoreAsc(SubSeq(s, 1, Len(s) - 1), e), s[Len(s)])

RECURSIVE sorted_by_score_asc(_)
sorted_by_score_asc(scores) ==
    IF scores = <<>> THEN <<>>
    ELSE InsertByScoreAsc(
             sorted_by_score_asc(SubSeq(scores, 1, Len(scores) - 1)),
             scores[Len(scores)])

RECURSIVE sorted_by_score(_)
sorted_by_score(scores) ==
    IF scores = <<>> THEN <<>>
    ELSE InsertByScoreDesc(
             sorted_by_score(SubSeq(scores, 1, Len(scores) - 1)),
             scores[Len(scores)])

\* A variant that weights the semantic list with 1 - semantic_weight and the
\* keyword list with semantic_weight.
hybrid_search_swapped(semantic_results, fulltext_results, n_results, semantic_weight) ==
    LET fulltext_weight == 10 - semantic_weight
        scores == accumulate(accumulate(<<>>, semantic_results,
                                        fulltext_weight, 1),
                             fulltext_results, semantic_weight, 1)
        sorted_ids == sorted_by_score(scores)
    IN SubSeq(sorted_ids, 1, IF n_results < Len(sorted_ids)
                             THEN n_results ELSE Len(sorted_ids))

\* hybrid_search after the two store queries returned: fuse, sort, cut.
hybrid_search(semantic_results, fulltext_results, n_results, semantic_weight) ==
    LET fulltext_weight == 10 - semantic_weight
        scores == accumulate(accumulate(<<>>, semantic_results,
                                        semantic_weight, 1),
                             fulltext_results, fulltext_weight, 1)
        sorted_ids == sorted_by_score(scores)
    IN SubSeq(sorted_ids, 1, IF n_results < Len(sorted_ids)
                             THEN n_results ELSE Len(sorted_ids))

\* The arguments of a hybrid_search call with the answers of the two store
\* queries, each limited to k = n_results * 3 rows.
HybridArgs ==
    UNION {[n_results : {n},
            semantic_weight : SemanticWeights,
            semantic_results : RankedLists(n * 3),
            fulltext_results : RankedLists(n * 3)] : n \in 0..MaxResults}

NoHybridArgs ==
    [n_results |-> 0, semantic_weight |-> 0, semantic_results |-> <<>>,
     fulltext_results |-> <<>>]

NoHybridRet == [done |-> FALSE, results |-> <<>>]

NoHybridPrev == [done |-> FALSE, semantic_weight |-> 0, results |-> <<>>]

HybridIdle ==
    /\ h_args = NoHybridArgs
    /\ h_ret = NoHybridRet
    /\ h_prev = NoHybridPrev

InitHybridVars ==
    /\ h_args \in HybridArgs
    /\ h_ret = NoHybridRet
    /\ h_prev = NoHybridPrev

HybridSearch ==
    /\ ~h_ret.done
    /\ h_ret' = [done |-> TRUE,
                 results |-> hybrid_search(h_args.semantic_results,
                                           h_args.fulltext_results,
                                           h_args.n_results,
                                           h_args.semantic_weight)]
    /\ UNCHANGED <<h_args, h_prev, graphVars, routerVars, restVars>>

\* A second hybrid_search call on the same query and the same stored rows
\* (both store queries answer as before) with a raised semantic_weight.
HybridSearchReweighted ==
    /\ h_ret.done
    /\ ~h_prev.done
    /\ \E semantic_weight \in SemanticWeights :
          /\ semantic_weight > h_args.semantic_weight
          /\ h_prev'= [done |-> TRUE,
                        semantic_weight |-> h_args.semantic_weight,
                        results |-> h_ret.results]
          /\ h_args' = [h_args EXCEPT !.semantic_weight = semantic_weight]
          /\ h_ret' = [done |-> TRUE,
                       results |-> hybrid_search(h_args.semantic_results,
                                                 h_args.fulltext_results,
                                                 h_args.n_results,
                                                 semantic_weight)]
    /\ UNCHANGED <<graphVars, routerVars, restVars>>

NextHybrid ==
    \/ HybridSearch
    \/ HybridSearchReweighted

-----------------------------------------------------------------------------
(* Properties of hybrid_search                                              *)

\* 0-based rank of id in a ranked list, -1 when absent.
RankIn(l, id) ==
    IF \E i \in 1..Len(l) : l[i] = id
    THEN (CHOOSE i \in 1..Len(l) : l[i] = id) - 1
    ELSE -1

\* One list's share of the fused score: weight/(60 + rank + 1), 0 if absent.
Share(l, id, weight) ==
    IF RankIn(l, id) = -1 THEN Frac(0, 1)
    ELSE Frac(weight, 60 + RankIn(l, id) + 1)

FusedScore(id) ==
    FracAdd(Share(h_args.semantic_results, id, h_args.semantic_weight),
            Share(h_args.fulltext_results, id, 10 - h_args.semantic_weight))

Candidates ==
    Range(h_args.semantic_results) \cup Range(h_args.fulltext_results)

ResultIds == {h_ret.results[i].id : i \in 1..Len(h_ret.results)}

\* C9: at most n_results results, ids pairwise distinct and taken from the
\* candidate lists; each score is the sum of the two weighted reciprocal-rank
\* shares; scores are non-increasing; no omitted candidate scores strictly
\* higher than a returned one.
C9_HybridFusion ==
    h_ret.done =>
        LET r == h_ret.results IN
        /\ Len(r) <= h_args.n_results
        /\ \A i, j \in 1..Len(r) : i # j => r[i].id # r[j].id
        /\ \A i \in 1..Len(r) :
              /\ r[i].id \in Candidates
              /\ r[i].score.den > 0
              /\ FracEq(r[i].score, FusedScore(r[i].id))
        /\ \A i, j \in 1..Len(r) : i < j => ~FracLess(r[i].score, r[j].score)
        /\ \A c \in Candidates \ ResultIds :
              \A i \in 1..Len(r) : ~FracLess(r[i].score, FusedScore(c))

\* C9 witness: two results were returned, one found by both searches and one
\* by the keyword search only, and a candidate was cut off.
C9_Witness ==
    /\ h_ret.done
    /\ Len(h_ret.results) = 2
    /\ Candidates \ ResultIds # {}
    /\ h_args.semantic_weight = 7
    /\ \E i \in 1..2 :
          /\ h_ret.results[i].id \in Range(h_args.semantic_results)
          /\ h_ret.results[i].id \in Range(h_args.fulltext_results)
    /\ \E i \in 1..2 :
          h_ret.results[i].id \notin Range(h_args.semantic_results)

\* C10: when both searches return the same ranked list of ids, the output
\* lists its ids in the relative order of that list, whatever the weight.
C10_SameListsKeepOrder ==
    (h_ret.done /\ h_args.semantic_results = h_args.fulltext_results) =>
        \A i, j \in 1..Len(h_ret.results) :
            i < j => RankIn(h_args.semantic_results, h_ret.results[i].id)
                       < RankIn(h_args.semantic_results, h_ret.results[j].id)

\* C10 witness: the same list of three ids from both searches, two returned,
\* with a weight outside [0, 1].
C10_Witness ==
    /\ h_ret.done
    /\ h_args.semantic_results = h_args.fulltext_results
    /\ Len(h_args.semantic_results) >= 3
    /\ Len(h_ret.results) = 2
    /\ h_args.semantic_weight = 15

\* 1-based position of id in a returned list, 0 when it was not returned.
PosIn(results, id) ==
    IF \E i \in 1..Len(results) : results[i].id = id
    THEN CHOOSE i \in 1..Len(results) : results[i].id = id
    ELSE 0

\* a is ahead of b in a returned list: a was returned, and b was not or comes
\* later.
Ahead(results, a, b) ==
    /\ PosIn(results, a) > 0
    /\ PosIn(results, b) = 0 \/ PosIn(results, a) < PosIn(results, b)

\* Fused position of a relative to b: -1 when a is ahead, 1 when b is ahead,
\* 0 when neither was returned.
RelativePosition(results, a, b) ==
    IF Ahead(results, a, b) THEN -1
    ELSE IF Ahead(results, b, a) THEN 1 ELSE 0

\* a is found by the semantic search only, b by the keyword search only, at
\* the same rank of their lists.
SameRankPair(a, b) ==
    /\ RankIn(h_args.semantic_results, a) >= 0
    /\ RankIn(h_args.fulltext_results, a) = -1
    /\ RankIn(h_args.fulltext_results, b) >= 0
    /\ RankIn(h_args.semantic_results, b) = -1
    /\ RankIn(h_args.semantic_results, a) = RankIn(h_args.fulltext_results, b)

\* C11: with both candidate lists unchanged, a call with semantic_weight 0.9
\* after a call with semantic_weight 0.3 never puts a semantic-only item in a
\* worse position relative to a keyword-only item of the same rank than the
\* earlier call did.
C11_WeightMonotone ==
    (h_prev.done /\ h_prev.semantic_weight = 3 /\ h_args.semantic_weight = 9)
        => \A a, b \in ChunkIds :
              SameRankPair(a, b) =>
                  RelativePosition(h_ret.results, a, b)
                      <= RelativePosition(h_prev.results, a, b)

\* C11 witness: the keyword-only item was ahead at 0.3, the semantic-only item
\* of the same rank is ahead at 0.9, and both calls returned both items.
C11_Witness ==
    /\ h_prev.done
    /\ h_prev.semantic_weight = 3
    /\ h_args.semantic_weight = 9
    /\ \E a, b \in ChunkIds :
          /\ SameRankPair(a, b)
          /\ PosIn(h_prev.results, a) > PosIn(h_prev.results, b)
          /\ PosIn(h_prev.results, b) > 0
          /\ PosIn(h_ret.results, b) > PosIn(h_ret.results, a)
          /\ PosIn(h_ret.results, a) > 0

-----------------------------------------------------------------------------
(* ComplexityAnalyzer                                                       *)

MaxSymbols == 4

\* Trigger phrases: a sample of ComplexityAnalyzer.COMPLEX_KEYWORDS and of
\* ComplexityAnalyzer.SIMPLE_KEYWORDS (every entry scores the same).
COMPLEX_KEYWORDS == {"prove", "why does", "chain rule"}

SIMPLE_KEYWORDS == {"what is", "define"}

\* len(question.split()): values on both sides of the two length tests.
WordCounts == {9, 10, 30, 31}

\* A question, as analyze reads it: the trigger phrases that occur in its
\* lower-cased text, its number of words and its number of math symbols.
Questions ==
    [complex_matched : SUBSET COMPLEX_KEYWORDS,
     simple_matched : SUBSET SIMPLE_KEYWORDS,
     word_count : WordCounts,
     math_symbols : 0..MaxSymbols]

complex_score(question) ==
    2 * Cardinality(question.complex_matched)
      + (IF question.word_count > 30 THEN 1 ELSE 0)
      + (IF question.math_symbols > 3 THEN 2
         ELSE IF question.math_symbols > 1 THEN 1 ELSE 0)

simple_score(question) ==
    2 * Cardinality(question.simple_matched)
      + (IF question.word_count > 30 THEN 0
         ELSE IF question.word_count < 10 THEN 1 ELSE 0)

\* A variant that tests the simple score before the complex score.
analyze_simple_first(question) ==
    IF simple_score(question) >= 3
          \/ simple_score(question) > complex_score(question)
    THEN SIMPLE
    ELSE IF complex_score(question) >= 3 THEN COMPLEX ELSE MODERATE

\* ComplexityAnalyzer.analyze: the decision on the two scores.
analyze(question) ==
    IF complex_score(question) >= 3 THEN COMPLEX
    ELSE IF simple_score(question) >= 3
               \/ simple_score(question) > complex_score(question)
         THEN SIMPLE
         ELSE MODERATE

NoQuestion ==
    [complex_matched |-> {}, simple_matched |-> {}, word_count |-> 10,
     math_symbols |-> 0]

AnalyzerIdle == an = [question |-> NoQuestion, done |-> FALSE, level |-> 0]

InitAnalyzerVars ==
    an \in [question : Questions, done : {FALSE}, level : {0}]

Analyze ==
    /\ ~an.done
    /\ an' = [an EXCEPT !.done = TRUE, !.level = analyze(an.question)]
    /\ UNCHANGED <<graphVars, routerVars, hybridVars, detectorVars,
                   pipelineVars, retrieverVars, moreVars>>

NextAnalyzer == Analyze

-----------------------------------------------------------------------------
(* Properties of ComplexityAnalyzer.analyze                                 *)

\* Two points for every matched phrase of a list.
PhrasePoints(matched) == 2 * Cardinality(matched)

\* The complex score of the analysed question, term by term.
ComplexPoints ==
    PhrasePoints(an.question.complex_matched)
      + (IF an.question.word_count > 30 THEN 1 ELSE 0)
      + (IF an.question.math_symbols > 3 THEN 2
         ELSE IF an.question.math_symbols > 1 THEN 1 ELSE 0)

\* The simple score of the analysed question, term by term.
SimplePoints ==
    PhrasePoints(an.question.simple_matched)
      + (IF an.question.word_count <= 30 /\ an.question.word_count < 10
         THEN 1 ELSE 0)

\* C16: a complex score of 3 or more gives COMPLEX, whatever the simple
\* score; otherwise a simple score of 3 or more, or one above the complex
\* score, gives SIMPLE; otherwise the result is MODERATE.
C16_AnalyzeDecision ==
    an.done =>
        /\ ComplexPoints >= 3 => an.level = COMPLEX
        /\ (ComplexPoints < 3 /\ (SimplePoints >= 3
                                    \/ SimplePoints > ComplexPoints))
              => an.level = SIMPLE
        /\ (ComplexPoints < 3 /\ SimplePoints < 3
               /\ SimplePoints <= ComplexPoints)
              => an.level = MODERATE

\* C16 witness: both scores are 3 or more and the answer is COMPLEX.
C16_Witness ==
    /\ an.done
    /\ ComplexPoints >= 3
    /\ SimplePoints >= 3
    /\ an.level = COMPLEX

-----------------------------------------------------------------------------
(* GapDetector.analyze_query                                                *)

\* Bound of the detector model: the number of words of a query.
MaxWords == 3

\* The lower-cased words a query is made of, separated by single spaces.
Words == {"product", "rule", "quotient", "derivative", "integral", "limit",
          "u-substitution", "chain", "find"}

Queries == SeqsUpTo(Words, MaxWords)

\* (w, k): the word w of Words has the different one-word keyword k as a
\* substring.
Substrings == {<<"u-substitution", "substitution">>}

\* GapDetector.TOPIC_KEYWORDS in dict order; a keyword is the sequence of its
\* words.
TOPIC_KEYWORDS ==
    <<[topic |-> "limits.introduction",
       keywords |-> <<(<<"limit">>), <<"limits">>, <<"approaches">>,
                      <<"approaching">> >>],
      [topic |-> "derivatives.basic",
       keywords |-> <<(<<"derivative">>), <<"differentiate">>,
                      <<"differentiation">>, <<"rate", "of", "change">> >>],
      [topic |-> "derivatives.chain_rule",
       keywords |-> <<(<<"chain", "rule">>), <<"composite">>,
                      <<"nested", "function">>, <<"sin(x^2)">>,
                      <<"cos(x^2)">> >>],
      [topic |-> "derivatives.product_rule",
       keywords |-> <<(<<"product", "rule">>), <<"multiply">>,
                      <<"product">> >>],
      [topic |-> "derivatives.quotient_rule",
       keywords |-> <<(<<"quotient", "rule">>), <<"divide">>,
                      <<"fraction">> >>],
      [topic |-> "integration.basic",
       keywords |-> <<(<<"integral">>), <<"integrate">>, <<"integration">>,
                      <<"antiderivative">> >>],
      [topic |-> "integration.substitution",
       keywords |-> <<(<<"u-substitution">>), <<"substitution">>,
                      <<"u", "sub">> >>],
      [topic |-> "functions.composition",
       keywords |-> <<(<<"composition">>), <<"composite">>, <<"f(g(x))">>,
                      <<"nested">> >>],
      [topic |-> "algebra.factoring",
       keywords |-> <<(<<"factor">>), <<"factoring">>, <<"factorize">> >>]>>

\* The patterns tested before the keyword table.
ChainRulePatterns ==
    <<(<<"sin(x^2)">>), <<"cos(x^2)">>, <<"chain">>, <<"composite">>,
      <<"nested">> >>

\* None, as the returned topic.
NoTopic == ""

\* keyword in query_lower, for queries over Words: a one-word keyword is a
\* substring of some word; a keyword of several words occupies consecutive
\* words (no word of Words properly ends or starts with a word of such a
\* keyword).
KeywordIn(keyword, query) ==
    IF Len(keyword) = 1
    THEN \E i \in 1..Len(query) :
            \/ query[i] = keyword[1]
            \/ <<query[i], keyword[1]>> \in Substrings
    ELSE \E i \in 1..Len(query) :
            /\ i + Len(keyword) - 1 <= Len(query)
            /\ \A j \in 1..Len(keyword) : query[i + j - 1] = keyword[j]

\* any(pattern in query_lower for pattern in patterns)
AnyIn(keywords, query) ==
    \E k \in 1..Len(keywords) : KeywordIn(keywords[k], query)

\* The double loop over TOPIC_KEYWORDS from entry i on: the first topic, in
\* dict order, with a keyword in the query.
RECURSIVE keyword_scan(_, _)
keyword_scan(query, i) ==
    IF i > Len(TOPIC_KEYWORDS) THEN NoTopic
    ELSE IF AnyIn(TOPIC_KEYWORDS[i].keywords, query)
         THEN TOPIC_KEYWORDS[i].topic
         ELSE keyword_scan(query, i + 1)

\* GapDetector.analyze_query
analyze_query(query) ==
    IF AnyIn(ChainRulePatterns, query) THEN "derivatives.chain_rule"
    ELSE IF keyword_scan(query, 1) # NoTopic THEN keyword_scan(query, 1)
    ELSE IF KeywordIn(<<"limit">>, query) THEN "limits.introduction"
    ELSE IF KeywordIn(<<"derivative">>, query) THEN "derivatives.basic"
    ELSE IF KeywordIn(<<"integral">>, query) THEN "integration.basic"
    ELSE NoTopic

DetectorIdle == det = [query |-> <<>>, done |-> FALSE, topic |-> NoTopic]

InitDetectorVars ==
    det \in [query : Queries, done : {FALSE}, topic : {NoTopic}]

AnalyzeQuery ==
    /\ ~det.done
    /\ det' = [det EXCEPT !.done = TRUE, !.topic = analyze_query(det.query)]
    /\ UNCHANGED <<graphVars, routerVars, hybridVars, analyzerVars,
                   pipelineVars, retrieverVars, moreVars>>

NextDetector == AnalyzeQuery

-----------------------------------------------------------------------------
(* Properties of GapDetector.analyze_query                                  *)

\* The specific trigger phrases, each with the topic that lists it.
SpecificPhrases ==
    {[topic |-> "derivatives.chain_rule", phrase |-> <<"chain", "rule">>],
     [topic |-> "derivatives.product_rule", phrase |-> <<"product", "rule">>],
     [topic |-> "derivatives.quotient_rule",
      phrase |-> <<"quotient", "rule">>],
     [topic |-> "integration.substitution", phrase |-> <<"u-substitution">>]}

\* The generic single keywords, each with the topic that lists it.
GenericKeywords ==
    {[topic |-> "limits.introduction", phrase |-> <<"limit">>],
     [topic |-> "derivatives.basic", phrase |-> <<"derivative">>],
     [topic |-> "integration.basic", phrase |-> <<"integral">>]}

\* The topics whose specific phrase occurs in the query.
SpecificTopics(query) ==
    {sp.topic : sp \in {x \in SpecificPhrases : KeywordIn(x.phrase, query)}}

\* No pattern and no keyword of the table occurs in the query.
MatchesNothing(query) ==
    /\ ~AnyIn(ChainRulePatterns, query)
    /\ \A i \in 1..Len(TOPIC_KEYWORDS) :
          ~AnyIn(TOPIC_KEYWORDS[i].keywords, query)

\* C19: a query with the specific trigger phrase of exactly one topic and a
\* generic single keyword of a different topic is answered with the topic
\* of the specific phrase; a query that matches nothing is answered None.
C19_SpecificBeforeGeneric ==
    det.done =>
        /\ \A sp \in SpecificPhrases, gk \in GenericKeywords :
              (/\ SpecificTopics(det.query) = {sp.topic}
               /\ KeywordIn(gk.phrase, det.query)
               /\ gk.topic # sp.topic)
                  => det.topic = sp.topic
        /\ MatchesNothing(det.query) => det.topic = NoTopic

-----------------------------------------------------------------------------
(* RAGPipeline.query: the messages passed to the LLM                        *)

\* Bound of the pipeline model: the length of the conversation history.
MaxHistory == 11

\* conversation_history[-10:]
HistoryWindow == 10

\* The roles of a history message ('user' or 'assistant').
HistoryRoles == {"user", "assistant"}

\* _build_context: the fixed sentence when nothing was retrieved, else the
\* formatted sources.
Contexts == {"No relevant content found", "formatted sources"}

LLMMessage(role, content) == [role |-> role, content |-> content]

\* _build_user_prompt: the context followed by the question.
_build_user_prompt(question, context) ==
    [context |-> context, question |-> question]

\* A variant that keeps the first ten history messages.
first_messages(conversation_history) ==
    SubSeq(conversation_history, 1,
           IF Len(conversation_history) < HistoryWindow
           THEN Len(conversation_history) ELSE HistoryWindow)

\* conversation_history[-10:]
last_messages(conversation_history) ==
    SubSeq(conversation_history,
           IF Len(conversation_history) > HistoryWindow
           THEN Len(conversation_history) - HistoryWindow + 1 ELSE 1,
           Len(conversation_history))

\* The messages list of query: the system prompt, the history window when a
\* non-empty history was given, the user prompt.
build_messages(question, context, given, conversation_history) ==
    LET window == last_messages(conversation_history)
        history_messages ==
            IF given /\ conversation_history # <<>>
            THEN [i \in 1..Len(window) |->
                     LLMMessage(window[i].role, window[i].content)]
            ELSE <<>>
    IN <<LLMMessage("system", "system_prompt")>>
         \o history_messages
         \o <<LLMMessage("user", _build_user_prompt(question, context))>>

\* given is FALSE for conversation_history=None; status is "idle" before the
\* call, "sent" once llm.generate received messages, "raised" when query
\* raised before that.
NoPipelineCall ==
    [given |-> FALSE, history |-> <<>>, status |-> "idle", question |-> "",
     context |-> "", messages |-> <<>>]

PipelineIdle == pl = NoPipelineCall

InitPipelineVars ==
    \E given \in BOOLEAN : pl = [NoPipelineCall EXCEPT !.given = given]

\* The caller records one more message of the conversation; its content is
\* its number in the conversation.
AppendHistory ==
    /\ pl.status = "idle"
    /\ pl.given
    /\ Len(pl.history) < MaxHistory
    /\ \E role \in HistoryRoles :
          pl' = [pl EXCEPT !.history =
                    Append(@, [role |-> role, content |-> Len(@) + 1])]
    /\ UNCHANGED <<graphVars, routerVars, hybridVars, analyzerVars,
                   detectorVars, retrieverVars, moreVars>>

\* query raises ValueError for an empty question.
QueryEmptyQuestion ==
    /\ pl.status = "idle"
    /\ pl' = [pl EXCEPT !.status = "raised", !.question = ""]
    /\ UNCHANGED <<graphVars, routerVars, hybridVars, analyzerVars,
                   detectorVars, retrieverVars, moreVars>>

\* query raises what the retrieval step raised.
QueryRetrievalRaises ==
    /\ pl.status = "idle"
    /\ pl' = [pl EXCEPT !.status = "raised", !.question = "question"]
    /\ UNCHANGED <<graphVars, routerVars, hybridVars, analyzerVars,
                   detectorVars, retrieverVars, moreVars>>

\* query retrieves, builds the context and the messages and calls
\* llm.generate(messages).
QuerySends ==
    /\ pl.status = "idle"
    /\ \E context \in Contexts :
          pl' = [pl EXCEPT !.status = "sent",
                           !.question = "question",
                           !.context = context,
                           !.messages = build_messages("question", context,
                                                       pl.given, pl.history)]
    /\ UNCHANGED <<graphVars, routerVars, hybridVars, analyzerVars,
                   detectorVars, retrieverVars, moreVars>>

NextPipeline ==
    \/ AppendHistory
    \/ QueryEmptyQuestion
    \/ QueryRetrievalRaises
    \/ QuerySends

-----------------------------------------------------------------------------
(* Properties of the messages passed to the LLM                             *)

\* min(10, len(history))
KeptCount == IF Len(pl.history) < 10 THEN Len(pl.history) ELSE 10

\* C20: the list passed to the LLM is one system message, then the last
\* min(10, length) history messages in their original order, then one user
\* message holding the retrieved context and the question; no other message
\* is a system message.
C20_MessageList ==
    pl.status = "sent" =>
        LET m == pl.messages
            n == KeptCount
        IN /\ Len(m) = n + 2
           /\ m[1] = [role |-> "system", content |-> "system_prompt"]
           /\ \A i \in 1..n :
                 /\ m[1 + i].role = pl.history[Len(pl.history) - n + i].role
                 /\ m[1 + i].content = Len(pl.history) - n + i
           /\ \A i \in 2..Len(m) : m[i].role # "system"
           /\ m[Len(m)].role = "user"
           /\ m[Len(m)].content =
                 [context |-> pl.context, question |-> pl.question]
           /\ pl.question # ""

\* C20 witness: a history of more than ten messages was given, so the oldest
\* one was left out.
C20_Witness ==
    /\ pl.status = "sent"
    /\ Len(pl.history) > 10
    /\ Len(pl.messages) = 12
    /\ pl.messages[2].content = Len(pl.history) - 9

\* C20 witness without a history: conversation_history is None.
C20_WitnessNone ==
    /\ pl.status = "sent"
    /\ ~pl.given
    /\ Len(pl.messages) = 2

-----------------------------------------------------------------------------
(* PrerequisiteAwareRetriever                                               *)

\* Bound of the retriever model: n_prerequisite_results.
MaxPrereqResults == 2

\* The keys of CALCULUS_TOPICS that occur in the model.
CALCULUS_TOPICS ==
    {"algebra.basics", "functions.notation", "functions.composition",
     "derivatives.basic", "derivatives.chain_rule"}

\* get_topic_info: CALCULUS_TOPICS.get(topic_id); None is <<>>.
get_topic_info(topic_id) ==
    IF topic_id \in CALCULUS_TOPICS
    THEN <<[display_name |-> topic_id]>>
    ELSE <<>>

Entry(topic, prerequisites) ==
    [topic |-> topic, prerequisites |-> prerequisites]

\* Custom prerequisite graphs, each the result of add_topic calls in the
\* order of its entries: one with the catalog's identifiers on two levels,
\* one with identifiers of the caller's own, one without prerequisites.
CustomGraphs ==
    {<<Entry("functions.notation", <<>>),
       Entry("functions.composition", <<"functions.notation">>),
       Entry("derivatives.basic", <<>>),
       Entry("derivatives.chain_rule",
             <<"derivatives.basic", "functions.composition">>)>>,
     <<Entry("derivatives.basic", <<>>),
       Entry("function_composition", <<>>),
       Entry("derivatives.chain_rule",
             <<"derivatives.basic", "function_composition">>)>>,
     <<Entry("derivatives.chain_rule", <<>>)>>}

\* The stored chunks, in the order the database lists rows of equal
\* distance, and the topics of their metadata.
ChunkOrder == <<"c1", "c2">>

RowTopics == {"derivatives.basic", "functions.composition"}

\* Cosine similarities in tenths: 30/61 (about 0.49), 0.9 and -0.2.
RawScores == {Frac(300, 61), Frac(9, 1), Frac(-2, 1)}

\* The store as the prerequisite queries see it: the topic of every chunk
\* and its similarity to the query of its topic.
Rows == [Range(ChunkOrder) -> [topic : RowTopics, raw : RawScores]]

\* The difficulty in the metadata of the chunks.
RowDifficulty == [id \in Range(ChunkOrder) |-> IF id = "c1" THEN "1" ELSE "2"]

\* A filters argument: None, or a dict, which is a set of <<key, value>>
\* pairs with one pair per key.
None == [is_none |-> TRUE, map |-> {}]

Dict(map) == [is_none |-> FALSE, map |-> map]

\* The filters a caller of retrieve passes.
CallerFilters ==
    {None, Dict({}), Dict({<<"difficulty", "1">>}),
     Dict({<<"topic", "functions.composition">>}),
     Dict({<<"topic", "functions.composition">>, <<"difficulty", "1">>})}

\* metadata->>'key' of a chunk.
metadata_text(rows, id, key) ==
    IF key = "topic" THEN rows[id].topic ELSE RowDifficulty[id]

\* The WHERE clause built from where: every condition is an equality on the
\* metadata; no clause for None or an empty dict.
where_clause(rows, id, where) ==
    \A cond \in where.map : metadata_text(rows, id, cond[1]) = cond[2]

\* A variant that filters on the prerequisite topic alone.
prerequisite_filters_topic_only(filters, prereq_topic) ==
    Dict({<<"topic", prereq_topic>>})

\* {"topic": prereq_topic} if filters is None
\* else {**filters, "topic": prereq_topic}
prerequisite_filters(filters, prereq_topic) ==
    IF filters.is_none
    THEN Dict({<<"topic", prereq_topic>>})
    ELSE Dict({cond \in filters.map : cond[1] # "topic"}
                 \cup {<<"topic", prereq_topic>>})

\* min_score = 0.45, in tenths.
MIN_SCORE == Frac(9, 2)

\* The queries of the retriever model: analyze_query detects no topic in
\* the first and the chain rule in the second.
RetrieverQueries == {<<"find">>, <<"chain", "rule">>}

\* semantic_weight in tenths: the default 0.7, and 30.0, which the
\* constructor accepts as it accepts any number; a hybrid score reaches
\* min_score only for weights that far outside [0, 1].
RetrieverSemanticWeights == {7, 300}

\* prerequisite_weight in tenths: the default 0.7, and 1.
PrerequisiteWeights == {7, 10}

\* The constructor arguments, the retrieve arguments and the store's
\* answers to the two searches of hybrid_search.
RetrieverArgs ==
    [use_hybrid_search : BOOLEAN,
     is_pgvector : BOOLEAN,
     semantic_weight : RetrieverSemanticWeights,
     prerequisite_weight : PrerequisiteWeights,
     max_prerequisite_depth : {1, 2},
     query : RetrieverQueries,
     include_prerequisites : BOOLEAN,
     n_results : 1..MaxResults,
     n_prerequisite_results : {MaxPrereqResults},
     semantic_results : {<<"c1">>, <<"c1", "c2">>, <<"c2", "c1">>},
     fulltext_results : {<<>>, <<"c2">>},
     rows : Rows,
     filters : {None}]

\* semantic_weight within the documented range (0-1), in tenths.
DocumentedSemanticWeights == {0, 3, 7, 10}

\* Calls of a retriever on a PgVectorStore with weights in the documented
\* ranges, with the filters a caller passes; every chunk is as similar to
\* the query of its topic as every other (0.9).
FilteredArgs ==
    [use_hybrid_search : BOOLEAN,
     is_pgvector : {TRUE},
     semantic_weight : DocumentedSemanticWeights,
     prerequisite_weight : {7},
     max_prerequisite_depth : {1, 2},
     query : RetrieverQueries,
     include_prerequisites : BOOLEAN,
     n_results : 1..MaxResults,
     n_prerequisite_results : {MaxPrereqResults},
     semantic_results : {<<"c1">>, <<"c1", "c2">>, <<"c2", "c1">>},
     fulltext_results : {<<>>, <<"c2">>},
     rows : [Range(ChunkOrder) -> [topic : RowTopics, raw : {Frac(9, 1)}]],
     filters : CallerFilters]

RetrievalResult(chunk_id, score, is_prerequisite, prerequisite_for) ==
    [chunk_id |-> chunk_id, score |-> score,
     is_prerequisite |-> is_prerequisite,
     prerequisite_for |-> prerequisite_for]

\* The identifiers _get_limited_prerequisites collects for depth >= 2.
RECURSIVE limited_set(_, _, _)
limited_set(g, topic, depth) ==
    IF depth <= 0 THEN {}
    ELSE LET direct_prereqs == get_prerequisites(g, topic) IN
         IF depth = 1 THEN Range(direct_prereqs)
         ELSE Range(direct_prereqs)
                \cup UNION {limited_set(g, direct_prereqs[i], depth - 1) :
                               i \in 1..Len(direct_prereqs)}

\* The lists without repetition that enumerate a set.
ListsOf(S) ==
    {l \in [1..Cardinality(S) -> S] :
        \A i, j \in 1..Cardinality(S) : i # j => l[i] # l[j]}

\* _get_limited_prerequisites: the lists it can return. For depth 1 it is
\* the stored list; for depth >= 2 it is list(all_prereqs) of a set, whose
\* order is not defined.
_get_limited_prerequisites(g, topic, depth) ==
    IF depth <= 0 THEN {<<>>}
    ELSE IF depth = 1 THEN {get_prerequisites(g, topic)}
    ELSE ListsOf(limited_set(g, topic, depth))

\* vector_store.query(where=where, n_results=n): the chunks the WHERE
\* clause keeps, by decreasing similarity, at most n.
RECURSIVE rows_where(_, _, _)
rows_where(rows, where, i) ==
    IF i > Len(ChunkOrder) THEN <<>>
    ELSE LET id == ChunkOrder[i] IN
         IF where_clause(rows, id, where)
         THEN <<[id |-> id, score |-> rows[id].raw]>>
                 \o rows_where(rows, where, i + 1)
         ELSE rows_where(rows, where, i + 1)

store_query(rows, where, n_results) ==
    LET ordered == sorted_by_score(rows_where(rows, where, 1))
    IN SubSeq(ordered, 1, IF n_results < Len(ordered)
                          THEN n_results ELSE Len(ordered))

\* Retriever.retrieve(query, n_results, filters): the store's rows as
\* RetrievalResult objects carrying the store's score.
base_retrieve(rows, filters, n_results) ==
    LET results == store_query(rows, filters, n_results)
    IN [i \in 1..Len(results) |->
           RetrievalResult(results[i].id, results[i].score, FALSE, NoTopic)]

\* The answer of one of the two searches of hybrid_search, which pass where
\* on to the store: the candidates the WHERE clause keeps.
search_where(rows, candidates, where) ==
    SelectSeq(candidates, LAMBDA id : where_clause(rows, id, where))

\* A variant that keeps every result of hybrid_search.
main_results_hybrid_unfiltered(hybrid_results, n_results) ==
    LET cut == SubSeq(hybrid_results, 1,
                      IF n_results < Len(hybrid_results)
                      THEN n_results ELSE Len(hybrid_results))
    IN [i \in 1..Len(cut) |->
           RetrievalResult(cut[i].id, cut[i].score, FALSE, NoTopic)]

\* The hybrid branch: the results of hybrid_search with a score of at least
\* min_score, cut to n_results.
main_results_hybrid(hybrid_results, n_results) ==
    LET Relevant(r) == ~FracLess(r.score, MIN_SCORE)
        kept == SelectSeq(hybrid_results, Relevant)
        cut  == SubSeq(kept, 1, IF n_results < Len(kept)
                                THEN n_results ELSE Len(kept))
    IN [i \in 1..Len(cut) |->
           RetrievalResult(cut[i].id, cut[i].score, FALSE, NoTopic)]

\* A variant that leaves the score of a prerequisite result as the store
\* returned it.
weighted_score_raw(score, prerequisite_weight) == score

\* result.score *= self.prerequisite_weight (the weight is in tenths).
weighted_score(score, prerequisite_weight) ==
    Frac(score.num * prerequisite_weight, score.den * 10)

\* The loop "for result in prereq_results": weight down and mark.
mark_prerequisite(prereq_results, prerequisite_weight, detected_topic) ==
    [i \in 1..Len(prereq_results) |->
        RetrievalResult(prereq_results[i].chunk_id,
                        weighted_score(prereq_results[i].score,
                                       prerequisite_weight),
                        TRUE, detected_topic)]

\* The loop "for prereq_topic in prerequisites" from position i on; acc holds
\* prerequisites_used, prerequisite_results and the filters of the retrievals
\* issued.
RECURSIVE prerequisite_loop(_, _, _, _, _)
prerequisite_loop(a, detected_topic, prerequisites, i, acc) ==
    IF i > Len(prerequisites) THEN acc
    ELSE LET prereq_topic == prerequisites[i]
             topic_info == get_topic_info(prereq_topic)
         IN IF topic_info # <<>>
            THEN prerequisite_loop(a, detected_topic, prerequisites, i + 1,
                     [used |-> Append(acc.used, prereq_topic),
                      results |-> acc.results \o
                          mark_prerequisite(
                              base_retrieve(
                                  a.rows,
                                  prerequisite_filters(a.filters,
                                                       prereq_topic),
                                  a.n_prerequisite_results),
                              a.prerequisite_weight, detected_topic),
                      issued |-> Append(acc.issued,
                          [kind |-> "prerequisite", topic |-> prereq_topic,
                           where |-> prerequisite_filters(a.filters,
                                                          prereq_topic)])])
            ELSE prerequisite_loop(a, detected_topic, prerequisites, i + 1,
                                   acc)

\* seen_ids[result.chunk_id] = result on an insertion-ordered dict.
SeenSet(seen_ids, result) ==
    IF \E i \in 1..Len(seen_ids) : seen_ids[i].chunk_id = result.chunk_id
    THEN [i \in 1..Len(seen_ids) |->
            IF seen_ids[i].chunk_id = result.chunk_id
            THEN result ELSE seen_ids[i]]
    ELSE Append(seen_ids, result)

SeenGet(seen_ids, chunk_id) ==
    seen_ids[CHOOSE i \in 1..Len(seen_ids) : seen_ids[i].chunk_id = chunk_id]

\* A variant that keeps the first copy of a chunk id.
RECURSIVE remove_duplicates_first(_, _, _)
remove_duplicates_first(all_results, i, seen_ids) ==
    IF i > Len(all_results) THEN seen_ids
    ELSE LET result == all_results[i] IN
         IF \A j \in 1..Len(seen_ids) :
               seen_ids[j].chunk_id # result.chunk_id
         THEN remove_duplicates_first(all_results, i + 1,
                                      SeenSet(seen_ids, result))
         ELSE remove_duplicates_first(all_results, i + 1, seen_ids)

\* The loop that removes duplicates by chunk_id, keeping higher scores.
RECURSIVE remove_duplicates(_, _, _)
remove_duplicates(all_results, i, seen_ids) ==
    IF i > Len(all_results) THEN seen_ids
    ELSE LET result == all_results[i] IN
         IF \/ \A j \in 1..Len(seen_ids) :
                  seen_ids[j].chunk_id # result.chunk_id
            \/ FracLess(SeenGet(seen_ids, result.chunk_id).score,
                        result.score)
         THEN remove_duplicates(all_results, i + 1,
                                SeenSet(seen_ids, result))
         ELSE remove_duplicates(all_results, i + 1, seen_ids)

\* Step 4 of retrieve and the returned PrerequisiteAwareResult.
PrerequisiteAwareResult(main_results, prerequisite_results, detected_topic, prerequisites_used) ==
    [results |-> sorted_by_score(
                     remove_duplicates(main_results \o prerequisite_results,
                                       1, <<>>)),
     detected_topic |-> detected_topic,
     prerequisites_used |-> prerequisites_used,
     main_results_count |-> Len(main_results),
     prerequisite_results_count |-> Len(prerequisite_results)]

NoRetrieverArgs ==
    [use_hybrid_search |-> TRUE, is_pgvector |-> TRUE, semantic_weight |-> 7,
     prerequisite_weight |-> 7, max_prerequisite_depth |-> 2,
     query |-> <<>>, include_prerequisites |-> TRUE, n_results |-> 0,
     n_prerequisite_results |-> 0, semantic_results |-> <<>>,
     fulltext_results |-> <<>>,
     rows |-> [id \in Range(ChunkOrder) |->
                  [topic |-> "derivatives.basic", raw |-> Frac(0, 1)]],
     filters |-> None]

NoResult ==
    [results |-> <<>>, detected_topic |-> NoTopic,
     prerequisites_used |-> <<>>, main_results_count |-> 0,
     prerequisite_results_count |-> 0]

\* status is "idle" before the call, then "returned" or "raised";
\* main_results and prerequisite_results are the two lists before the merge;
\* issued lists the retrievals that reached the store, with their filters.
NoRetrieve ==
    [args |-> NoRetrieverArgs, status |-> "idle", error |-> "",
     main_results |-> <<>>, prerequisite_results |-> <<>>,
     result |-> NoResult, issued |-> <<>>]

RetrieverIdle == par = NoRetrieve

InitRetrieverVars ==
    \E a \in RetrieverArgs : par = [NoRetrieve EXCEPT !.args = a]

InitFilteredVars ==
    \E a \in FilteredArgs : par = [NoRetrieve EXCEPT !.args = a]

\* retrieve on the plain-retriever branch: base_retriever.retrieve is called
\* with the keyword min_score, which Retriever.retrieve does not accept, so
\* the call raises TypeError.
RetrieveSemantic ==
    /\ par.status = "idle"
    /\ ~(par.args.use_hybrid_search /\ par.args.is_pgvector)
    /\ par' = [par EXCEPT !.status = "raised", !.error = "TypeError"]
    /\ UNCHANGED <<graphVars, routerVars, hybridVars, analyzerVars,
                   detectorVars, pipelineVars, moreVars>>

\* retrieve on the hybrid branch.
RetrieveHybrid ==
    /\ par.status = "idle"
    /\ par.args.use_hybrid_search /\ par.args.is_pgvector
    /\ LET a == par.args
           detected_topic == analyze_query(a.query)
           main_results ==
               main_results_hybrid(
                   hybrid_search(
                       search_where(a.rows, a.semantic_results, a.filters),
                       search_where(a.rows, a.fulltext_results, a.filters),
                       a.n_results * 2, a.semantic_weight),
                   a.n_results)
       IN \E prerequisites \in
                 (IF a.include_prerequisites /\ detected_topic # NoTopic
                  THEN _get_limited_prerequisites(graph, detected_topic,
                                                  a.max_prerequisite_depth)
                  ELSE {<<>>}) :
             LET acc == prerequisite_loop(a, detected_topic, prerequisites, 1,
                                          [used |-> <<>>, results |-> <<>>,
                                           issued |-> <<>>])
             IN par' = [par EXCEPT
                          !.status = "returned",
                          !.issued = <<[kind |-> "main", topic |-> NoTopic,
                                        where |-> a.filters]>> \o acc.issued,
                          !.main_results = main_results,
                          !.prerequisite_results = acc.results,
                          !.result = PrerequisiteAwareResult(
                                         main_results, acc.results,
                                         detected_topic, acc.used)]
    /\ UNCHANGED <<graphVars, routerVars, hybridVars, analyzerVars,
                   detectorVars, pipelineVars, moreVars>>

NextRetriever ==
    \/ RetrieveSemantic
    \/ RetrieveHybrid

-----------------------------------------------------------------------------
(* Properties of PrerequisiteAwareRetriever.retrieve                        *)

\* The score the store returned for the chunk of a prerequisite result.
RawScoreOf(result) == par.args.rows[result.chunk_id].raw

\* raw * prerequisite_weight, the weight being in tenths.
Weighted(raw) == Frac(raw.num * par.args.prerequisite_weight, raw.den * 10)

\* Every prerequisite result scores raw times prerequisite_weight, and
\* strictly less than every main result whose score equals its raw score.
WeightedBelowMain ==
    \A i \in 1..Len(par.prerequisite_results) :
        LET p == par.prerequisite_results[i] IN
        /\ p.score.den > 0
        /\ FracEq(p.score, Weighted(RawScoreOf(p)))
        /\ \A j \in 1..Len(par.main_results) :
              FracEq(par.main_results[j].score, RawScoreOf(p))
                 => FracLess(p.score, par.main_results[j].score)

AllRetrieved == par.main_results \o par.prerequisite_results

\* C13: the returned list has every retrieved chunk id exactly once, each
\* entry is a retrieved copy whose score no other copy of the same chunk id
\* exceeds, and scores are non-increasing.
C13_DedupKeepsHigher ==
    par.status = "returned" =>
        LET r == par.result.results IN
        /\ \A i, j \in 1..Len(r) : i # j => r[i].chunk_id # r[j].chunk_id
        /\ \A k \in 1..Len(AllRetrieved) :
              \E i \in 1..Len(r) : r[i].chunk_id = AllRetrieved[k].chunk_id
        /\ \A i \in 1..Len(r) :
              /\ r[i] \in Range(AllRetrieved)
              /\ \A k \in 1..Len(AllRetrieved) :
                    AllRetrieved[k].chunk_id = r[i].chunk_id
                       => ~FracLess(r[i].score, AllRetrieved[k].score)
        /\ \A i, j \in 1..Len(r) : i < j => ~FracLess(r[i].score, r[j].score)

\* C13 witness: a chunk was retrieved as a main result and, with a higher
\* score, as a prerequisite result; the prerequisite copy was returned, and
\* the list has a second entry.
C13_Witness ==
    /\ par.status = "returned"
    /\ Len(par.result.results) >= 2
    /\ \E j \in 1..Len(par.main_results) :
          \E i \in 1..Len(par.prerequisite_results) :
             /\ par.main_results[j].chunk_id
                   = par.prerequisite_results[i].chunk_id
             /\ FracLess(par.main_results[j].score,
                         par.prerequisite_results[i].score)
             /\ par.prerequisite_results[i] \in Range(par.result.results)

\* C14: when use_hybrid_search is false or the store is not a PgVectorStore,
\* retrieve returns normally, with at most n_results main results, each of
\* score 0.45 or more.
C14_SemanticFallbackReturns ==
    (par.status # "idle"
       /\ ~(par.args.use_hybrid_search /\ par.args.is_pgvector))
        => /\ par.status = "returned"
           /\ Len(par.main_results) <= par.args.n_results
           /\ \A j \in 1..Len(par.main_results) :
                 ~FracLess(par.main_results[j].score, MIN_SCORE)

\* The identifiers within depth prerequisite edges of the topics of S.
RECURSIVE WithinDepth(_, _, _)
WithinDepth(g, S, depth) ==
    IF depth <= 0 THEN {}
    ELSE LET D == UNION {DirectSet(g, x) : x \in S}
         IN D \cup WithinDepth(g, D, depth - 1)

\* C15: when a topic is detected and prerequisites are requested, every
\* prerequisite of the detected topic within max_prerequisite_depth in the
\* custom graph is in prerequisites_used, and every prerequisite result is
\* marked is_prerequisite with prerequisite_for the detected topic.
C15_CustomGraphPrerequisitesUsed ==
    (/\ par.status = "returned"
     /\ par.result.detected_topic # NoTopic
     /\ par.args.include_prerequisites) =>
        /\ \A t \in WithinDepth(graph, {par.result.detected_topic},
                                 par.args.max_prerequisite_depth) :
              t \in Range(par.result.prerequisites_used)
        /\ \A i \in 1..Len(par.prerequisite_results) :
              /\ par.prerequisite_results[i].is_prerequisite
              /\ par.prerequisite_results[i].prerequisite_for
                    = par.result.detected_topic

\* The orders in which the retrieve call of par can enumerate the
\* prerequisite topics.
PrerequisiteOrders ==
    IF par.args.include_prerequisites /\ par.result.detected_topic # NoTopic
    THEN _get_limited_prerequisites(graph, par.result.detected_topic,
                                    par.args.max_prerequisite_depth)
    ELSE {<<>>}

\* The chunk ids of the list retrieve returns when it enumerates the
\* prerequisite topics in the given order.
MergedIds(prerequisites) ==
    LET acc == prerequisite_loop(par.args, par.result.detected_topic,
                                 prerequisites, 1,
                                 [used |-> <<>>, results |-> <<>>,
                                  issued |-> <<>>])
        merged == PrerequisiteAwareResult(par.main_results, acc.results,
                                          par.result.detected_topic,
                                          acc.used).results
    IN [i \in 1..Len(merged) |-> merged[i].chunk_id]

\* C22: with the scores fixed, the returned list (the ids and their order)
\* is the same for every order in which the prerequisite topics are
\* enumerated and retrieved, also when results of different prerequisite
\* topics have equal scores.
C22_MergeOrderIndependent ==
    par.status = "returned" =>
        \A prerequisites \in PrerequisiteOrders :
            MergedIds(prerequisites)
               = [i \in 1..Len(par.result.results) |->
                     par.result.results[i].chunk_id]

\* The list hybrid_search returned to the retrieve call of par.
HybridResults ==
    hybrid_search(
        search_where(par.args.rows, par.args.semantic_results,
                     par.args.filters),
        search_where(par.args.rows, par.args.fulltext_results,
                     par.args.filters),
        par.args.n_results * 2, par.args.semantic_weight)

\* 1/61 in tenths.
TopFusedScore == Frac(10, RRF_K + 1)

C30_PrerequisiteFilters ==
    /\ [](par.status = "returned" =>
            /\ Len(par.issued) = 1 + Len(par.result.prerequisites_used)
            /\ par.issued[1].kind = "main"
            /\ par.issued[1].where = par.args.filters
            /\ \A i \in 2..Len(par.issued) :
                  LET q == par.issued[i] IN
                  /\ q.kind = "prerequisite"
                  /\ q.topic = par.result.prerequisites_used[i - 1]
                  /\ ~q.where.is_none
                  /\ <<"topic", q.topic>> \in q.where.map
                  /\ \A cond \in q.where.map :
                        IF cond[1] = "topic" THEN cond[2] = q.topic
                        ELSE cond \in par.args.filters.map
                  /\ \A cond \in par.args.filters.map :
                        cond[1] # "topic" => cond \in q.where.map)
    /\ [][par'.args.filters = par.args.filters]_vars

\* C30 witness: the caller filtered on a topic and on the difficulty, and a
\* prerequisite retrieval was issued with the prerequisite topic instead of
\* the caller's and the caller's difficulty.
C30_Witness ==
    /\ par.status = "returned"
    /\ par.args.filters
          = Dict({<<"topic", "functions.composition">>, <<"difficulty", "1">>})
    /\ \E i \in 2..Len(par.issued) :
          par.issued[i].where
             = Dict({<<"topic", "derivatives.basic">>, <<"difficulty", "1">>})

-----------------------------------------------------------------------------
(* ModelRouter.generate: the routing of a question, given to the router     *)
(* directly or through RAGPipeline.query                                    *)

\* The router of scripts/test_local_routing.py and demo_smart_routing.py.
TwoTierRouter ==
    add_model(add_model(<<>>, "Small", MODERATE, FALSE),
              "Large", COMPLEX, TRUE)

\* The router of scripts/test_cloud_model.py.
ThreeTierRouter ==
    add_model(add_model(add_model(<<>>, "Local-Fast", SIMPLE, FALSE),
                        "Local-Powerful", MODERATE, TRUE),
              "Cloud", COMPLEX, TRUE)

RoutingRouters == {TwoTierRouter, ThreeTierRouter}

\* The number of words of the fixed text of _build_user_prompt; it holds no
\* trigger phrase and no math symbol.
TemplateWords == 32

\* _build_context without sources: eight words, no trigger phrase.
NoContent ==
    [complex_matched |-> {}, simple_matched |-> {}, word_count |-> 8,
     math_symbols |-> 0]

\* The context _build_context formats from retrieved chunks, read as analyze
\* reads a text.
RetrievedContexts ==
    {NoContent} \cup
    [complex_matched : {{}, {"prove", "chain rule"}},
     simple_matched : {{}, {"define"}},
     word_count : {40},
     math_symbols : {0, 2}]

\* The text of a message content as analyze reads it: a bare question is read
\* as it is; in a user prompt the trigger phrases, words and math symbols of the
\* template, the context and the question add up.
text_of(content) ==
    IF "context" \in DOMAIN content
    THEN [complex_matched |-> content.context.complex_matched
                                 \cup content.question.complex_matched,
          simple_matched |-> content.context.simple_matched
                                \cup content.question.simple_matched,
          word_count |-> TemplateWords + content.context.word_count
                            + content.question.word_count,
          math_symbols |-> content.context.math_symbols
                              + content.question.math_symbols]
    ELSE content

\* _extract_question: the content of the last user message, "" without one.
RECURSIVE extract_from(_, _)
extract_from(messages, i) ==
    IF i = 0 THEN ""
    ELSE IF messages[i].role = "user" THEN messages[i].content
         ELSE extract_from(messages, i - 1)

_extract_question(messages) == extract_from(messages, Len(messages))

\* generate, lines 249-256: the tier of the extracted text and the primary.
route(router, messages) ==
    LET question == _extract_question(messages)
        complexity == analyze(text_of(question))
    IN [level |-> complexity,
        model |-> router[_select_model(router, complexity)].name]

NoRouting ==
    [router |-> <<>>, question |-> NoQuestion, context |-> NoContent,
     via |-> "none", level |-> 0, model |-> ""]

RoutingIdle == rt = NoRouting

InitRoutingVars ==
    \E router \in RoutingRouters, question \in Questions,
       context \in RetrievedContexts :
        rt = [NoRouting EXCEPT !.router = router, !.question = question,
                               !.context = context]

\* router.generate([LLMMessage(role="user", content=question)]), as the
\* routing scripts call it.
GenerateDirect ==
    /\ rt.via = "none"
    /\ rt.router # <<>>
    /\ LET r == route(rt.router, <<LLMMessage("user", rt.question)>>) IN
       rt' = [rt EXCEPT !.via = "direct", !.level = r.level,
                        !.model = r.model]
    /\ UNCHANGED <<graphVars, routerVars, hybridVars, analyzerVars,
                   detectorVars, pipelineVars, retrieverVars, concurrentVars>>

\* RAGPipeline.query with llm = the router: self.llm.generate(messages) on
\* the messages query builds from the retrieved context and the question.
QueryThroughRouter ==
    /\ rt.via = "none"
    /\ rt.router # <<>>
    /\ LET r == route(rt.router,
                      build_messages(rt.question, rt.context, FALSE, <<>>)) IN
       rt' = [rt EXCEPT !.via = "pipeline", !.level = r.level,
                        !.model = r.model]
    /\ UNCHANGED <<graphVars, routerVars, hybridVars, analyzerVars,
                   detectorVars, pipelineVars, retrieverVars, concurrentVars>>

NextRouting ==
    \/ GenerateDirect
    \/ QueryThroughRouter

-----------------------------------------------------------------------------
(* Properties of the routing of a question                                  *)

\* C26: every question that holds the trigger word 'prove' is classified
\* COMPLEX, and the two-tier router (MODERATE non-fallback, COMPLEX fallback)
\* takes the larger model as its primary, whatever else the question holds.
C26_ProveRoutedToLarge ==
    (/\ rt.via = "direct"
     /\ rt.router = TwoTierRouter
     /\ "prove" \in rt.question.complex_matched) =>
        /\ rt.level = COMPLEX
        /\ rt.model = "Large"

\* C27: a question routed through RAGPipeline.query goes to the binding the
\* router selects for the tier of the bare question text, whatever context
\* was retrieved.
C27_RoutedByQuestionOnly ==
    rt.via = "pipeline" =>
        rt.model = rt.router[_select_model(rt.router,
                                           analyze(rt.question))].name

-----------------------------------------------------------------------------
(* ModelRouter shared by several callers: each caller calls generate once   *)
(* and reads last_model_used after its call completed                       *)

Callers == {"t1", "t2", "t3"}

\* A variant that names the fallback first.
fallback_label_swapped(primary_name, fallback_name) ==
    <<fallback_name, primary_name>>

\* f"{primary_model.name}→{fallback_model.name}"
fallback_label(primary_name, fallback_name) == <<primary_name, fallback_name>>

\* primary_model.name
primary_label(primary_name) == <<primary_name>>

\* A caller: the position of its generate call, the bindings the call invoked
\* so far (indices into models), the value it read afterwards, and whether its
\* query (the call up to the read) overlapped another caller's query, or its
\* generate call another generate call.
NoCaller ==
    [pc |-> "idle", invoked |-> <<>>, read |-> <<>>, overlapped |-> FALSE,
     interleaved |-> FALSE]

ConcurrentIdle == cc = [c \in Callers |-> NoCaller]

MoreIdle == ConcurrentIdle /\ RoutingIdle

\* What a step of a caller leaves alone.
concurrentFrame ==
    <<graphVars, models, enable_fallback, pc, call, invocations, hybridVars,
      analyzerVars, detectorVars, pipelineVars, retrieverVars, routingVars>>

\* The caller's query is under way: generate started, the field not yet read.
Busy(c) == cc[c].pc \in {"primary", "fallback", "returned", "raised"}

\* The caller's generate call is in flight.
InGenerate(c) == cc[c].pc \in {"primary", "fallback"}

\* generate, lines 249-258, called by caller c: select the primary, record it,
\* invoke it.
CallerStarts ==
    \E c \in Callers :
        /\ cc[c].pc = "idle"
        /\ \E complexity \in ComplexityLevel :
              LET primary == _select_model(models, complexity) IN
              /\ last_model_used' = primary_label(models[primary].name)
              /\ cc' = [d \in Callers |->
                          IF d = c
                          THEN [cc[c] EXCEPT
                                  !.pc = "primary",
                                  !.invoked = <<primary>>,
                                  !.overlapped = \E e \in Callers \ {c} : Busy(e),
                                  !.interleaved =
                                      \E e \in Callers \ {c} : InGenerate(e)]
                          ELSE IF Busy(d)
                               THEN [cc[d] EXCEPT
                                       !.overlapped = TRUE,
                                       !.interleaved = @ \/ InGenerate(d)]
                               ELSE cc[d]]
        /\ UNCHANGED concurrentFrame

\* The fallback loop of caller c from its k-th iteration on.
CallerFallbackFrom(c, k) ==
    LET fallbacks == fallback_models(models) IN
    IF k > Len(fallbacks)
    THEN /\ cc' = [cc EXCEPT ![c].pc = "raised"]
         /\ UNCHANGED last_model_used
    ELSE /\ last_model_used' =
               fallback_label(models[cc[c].invoked[1]].name,
                              models[fallbacks[k]].name)
         /\ cc' = [cc EXCEPT ![c].pc = "fallback",
                             ![c].invoked = Append(@, fallbacks[k])]

\* lines 258-264: the primary of caller c returned a response.
CallerPrimarySucceeds ==
    \E c \in Callers :
        /\ cc[c].pc = "primary"
        /\ cc' = [cc EXCEPT ![c].pc = "returned"]
        /\ UNCHANGED last_model_used
        /\ UNCHANGED concurrentFrame

\* lines 266-279: the primary of caller c raised.
CallerPrimaryFails ==
    \E c \in Callers :
        /\ cc[c].pc = "primary"
        /\ IF ~enable_fallback
           THEN /\ cc' = [cc EXCEPT ![c].pc = "raised"]
                /\ UNCHANGED last_model_used
           ELSE CallerFallbackFrom(c, 1)
        /\ UNCHANGED concurrentFrame

\* lines 279-285: the fallback of caller c returned a response.
CallerFallbackSucceeds ==
    \E c \in Callers :
        /\ cc[c].pc = "fallback"
        /\ cc' = [cc EXCEPT ![c].pc = "returned"]
        /\ UNCHANGED last_model_used
        /\ UNCHANGED concurrentFrame

\* lines 287-293: the fallback of caller c raised; try the next one.
CallerFallbackFails ==
    \E c \in Callers :
        /\ cc[c].pc = "fallback"
        /\ CallerFallbackFrom(c, Len(cc[c].invoked))
        /\ UNCHANGED concurrentFrame

\* The caller reads router.last_model_used after its call completed.
CallerReads ==
    \E c \in Callers :
        /\ cc[c].pc \in {"returned", "raised"}
        /\ cc' = [cc EXCEPT ![c].pc = "read", ![c].read = last_model_used]
        /\ UNCHANGED last_model_used
        /\ UNCHANGED concurrentFrame

NextConcurrent ==
    \/ CallerStarts
    \/ CallerPrimarySucceeds
    \/ CallerPrimaryFails
    \/ CallerFallbackSucceeds
    \/ CallerFallbackFails
    \/ CallerReads

-----------------------------------------------------------------------------
(* Properties of last_model_used under shared use                           *)

\* The label of the binding(s) the generate call of caller c used: the
\* primary, followed by the last fallback invoked when there was one.
OwnLabel(c) ==
    LET inv == cc[c].invoked IN
    IF Len(inv) = 1 THEN <<models[inv[1]].name>>
    ELSE <<models[inv[1]].name, models[inv[Len(inv)]].name>>

\* C21: a caller whose query ran alone (no other caller between the start of
\* its generate call and its read) reads the label of the binding(s) its own
\* call used; when generate calls interleave, a caller can read the label
\* another call wrote (the state C21_Witness describes).
C21_SerializedReadsOwnLabel ==
    \A c \in Callers :
        (cc[c].pc = "read" /\ ~cc[c].overlapped) => cc[c].read = OwnLabel(c)

\* C21 witness: one caller ran alone and read its own label; the generate
\* calls of two other callers interleaved, and one of them read, after its
\* own call completed, the label the other one wrote.
C21_Witness ==
    /\ \E c \in Callers :
          /\ cc[c].pc = "read"
          /\ ~cc[c].overlapped
          /\ cc[c].read = OwnLabel(c)
    /\ \E c, d \in Callers :
          /\ c # d
          /\ cc[c].pc = "read"
          /\ cc[c].interleaved
          /\ cc[d].interleaved
          /\ cc[d].invoked # <<>>
          /\ cc[c].read # OwnLabel(c)
          /\ cc[c].read = OwnLabel(d)

-----------------------------------------------------------------------------
(* Specifications                                                           *)

\* The components added after the first three are idle.
RestIdle ==
    /\ AnalyzerIdle /\ DetectorIdle /\ PipelineIdle /\ RetrieverIdle
    /\ MoreIdle

InitGraph ==
    /\ InitGraphVars /\ enable_fallback = TRUE /\ RouterIdle /\ HybridIdle
    /\ RestIdle

SpecGraph == InitGraph /\ [][NextGraph]_vars

\* A graph loaded from a mapping instead of built with add_topic.
SpecLoaded == InitGraph /\ [][NextLoaded]_vars

InitRouter == InitGraphVars /\ InitRouterVars /\ HybridIdle /\ RestIdle

SpecRouter == InitRouter /\ [][NextRouter]_vars

InitHybrid ==
    /\ InitGraphVars /\ enable_fallback = TRUE /\ RouterIdle /\ InitHybridVars
    /\ RestIdle

SpecHybrid == InitHybrid /\ [][NextHybrid]_vars

InitAnalyzer ==
    /\ InitGraphVars /\ enable_fallback = TRUE /\ RouterIdle /\ HybridIdle
    /\ InitAnalyzerVars /\ DetectorIdle /\ PipelineIdle /\ RetrieverIdle
    /\ MoreIdle

SpecAnalyzer == InitAnalyzer /\ [][NextAnalyzer]_vars

InitDetector ==
    /\ InitGraphVars /\ enable_fallback = TRUE /\ RouterIdle /\ HybridIdle
    /\ AnalyzerIdle /\ InitDetectorVars /\ PipelineIdle /\ RetrieverIdle
    /\ MoreIdle

SpecDetector == InitDetector /\ [][NextDetector]_vars

InitPipeline ==
    /\ InitGraphVars /\ enable_fallback = TRUE /\ RouterIdle /\ HybridIdle
    /\ AnalyzerIdle /\ DetectorIdle /\ InitPipelineVars /\ RetrieverIdle
    /\ MoreIdle

SpecPipeline == InitPipeline /\ [][NextPipeline]_vars

\* The retriever is constructed on a custom graph that add_topic built.
InitRetriever ==
    /\ graph \in CustomGraphs /\ ret = NoRet
    /\ enable_fallback = TRUE /\ RouterIdle /\ HybridIdle
    /\ AnalyzerIdle /\ DetectorIdle /\ PipelineIdle /\ InitRetrieverVars
    /\ MoreIdle

SpecRetriever == InitRetriever /\ [][NextRetriever]_vars

\* The retriever with weights in the documented ranges and caller filters.
InitFiltered ==
    /\ graph \in CustomGraphs /\ ret = NoRet
    /\ enable_fallback = TRUE /\ RouterIdle /\ HybridIdle
    /\ AnalyzerIdle /\ DetectorIdle /\ PipelineIdle /\ InitFilteredVars
    /\ MoreIdle

SpecFiltered == InitFiltered /\ [][NextRetriever]_vars

InitRouting ==
    /\ InitGraphVars /\ enable_fallback = TRUE /\ RouterIdle /\ HybridIdle
    /\ AnalyzerIdle /\ DetectorIdle /\ PipelineIdle /\ RetrieverIdle
    /\ ConcurrentIdle /\ InitRoutingVars

\* Three callers share the router of the routing scripts.
InitConcurrent ==
    /\ InitGraphVars /\ HybridIdle
    /\ enable_fallback \in BOOLEAN
    /\ models \in RoutingRouters
    /\ last_model_used = <<>> /\ pc = "idle" /\ call = NoCall
    /\ invocations = <<>>
    /\ AnalyzerIdle /\ DetectorIdle /\ PipelineIdle /\ RetrieverIdle
    /\ MoreIdle

SpecConcurrent == InitConcurrent /\ [][NextConcurrent]_vars

SpecRouting == InitRouting /\ [][NextRouting]_vars

=============================================================================
